---- MODULE Spec2Model ----
(***************************************************************************)
(* SqliteFtpBackup: the backup-and-transfer pipeline.                      *)
(*                                                                         *)
(* The model follows src/src/SqliteHelper.cpp (SqliteHelper, FtpUploader,  *)
(* TempFileRemover, BackupManager, main), the FtpUploader header and       *)
(* include/Logger.h.  One process is modelled.  It is either the           *)
(* application (main -> BackupManager::run) or a client of FtpUploader     *)
(* that constructs an uploader, calls its setters and calls uploadFile,    *)
(* as tests/FtpUploaderTests.cpp does.                                     *)
(*                                                                         *)
(* The outcomes of the primitives the code consumes (sqlite3_*, fopen,     *)
(* curl_easy_init, curl_easy_perform) are inputs chosen with \E.           *)
(***************************************************************************)
EXTENDS Integers, Sequences, FiniteSets, TLC

VARIABLES
    mode,       \* "none" | "main" | "client": who drives the process
    fs,         \* the files that exist on disk
    minLevel,   \* Logger::minLevel_
    log,        \* the lines the Logger has written, oldest first
    up,         \* the FtpUploader object's fields
    upAlive,    \* an FtpUploader object exists
    setterCalled, \* a setter has been called on it since its construction
    upc,        \* position inside FtpUploader::uploadFile
    call,       \* the locals of the uploadFile call in progress
    curl,       \* the options set on the transfer handle of the current attempt
    obs,        \* what the environment saw of the current uploadFile call
    calls,      \* uploadFile calls made by the client so far
    rpc,        \* position inside main / BackupManager::run
    cfg,        \* BackupManager's fields
    db,         \* the SqliteHelper object and its database
    bk,         \* the locals of backupToFile and the destination database
    remover,    \* the TempFileRemover local of run(): [active, path]
    exc,        \* the exception in flight, or the last one caught
    now,        \* the wall clock, in seconds (the timestamps of file names)
    result,     \* what run() returned: "none" | "true" | "false"
    exitCode,   \* what main returned, -1 while it runs
    argv,       \* the command line main was started with
    runs,       \* per thread, the run() call it executes concurrently with others
    lg,         \* the Logger singleton shared by threads and the threads inside log()
    pf          \* the arguments and the result of the function under study

vars == <<mode, fs, minLevel, log, up, upAlive, setterCalled, upc, call, curl, obs, calls,
          rpc, cfg, db, bk, remover, exc, now, result, exitCode, argv, runs, lg,
          pf>>

----------------------------------------------------------------------------
(* Bounds of the model *)

\* the largest value given to setRetries / --retries
MaxRetriesArg == 9
\* uploadFile calls a client makes on one uploader
MaxCalls == 2
\* the size of the source database, in page-copy batches
MaxBatches == 2
\* the writes of other connections to the source database during one backup
MaxExternalWrites == 1
\* the seconds the wall clock advances while concurrent runs execute
MaxClock == 1
\* the messages each thread logs
MaxMessages == 2
\* the length of the directory strings given to buildUrl, and of their variants
MaxDirLen == 3
MaxVariantLen == 5

----------------------------------------------------------------------------
(* Small helpers *)

Min(a, b) == IF a < b THEN a ELSE b
Max(a, b) == IF a > b THEN a ELSE b

RECURSIVE Pow2(_)
Pow2(n) == IF n <= 0 THEN 1 ELSE 2 * Pow2(n - 1)

RECURSIVE SumSeq(_)
SumSeq(s) == IF s = <<>> THEN 0 ELSE Head(s) + SumSeq(Tail(s))

----------------------------------------------------------------------------
(* Logger (include/Logger.h) *)

Levels == {"DEBUG", "INFO", "WARNING", "ERROR"}

\* enum class Level { DEBUG, INFO, WARNING, ERROR }
LevelOrd(l) ==
    CASE l = "DEBUG" -> 0
      [] l = "INFO" -> 1
      [] l = "WARNING" -> 2
      [] l = "ERROR" -> 3

\* One written line: the severity, the fixed text of the message, the number
\* formatted into it (0 when none) and the variable detail ("" when none).
Line(lvl, text, n, detail) == [lvl |-> lvl, text |-> text, n |-> n, detail |-> detail]

LogFilterMutant(min, e) == LevelOrd(e.lvl) > LevelOrd(min)

\* Logger::log: `if (lvl < minLevel_) return;` then the line is written.
LogFilter(min, e) == LevelOrd(e.lvl) >= LevelOrd(min)

\* the lines `entries` logged in this order under minimum level `min`
Emit(l, min, entries) == l \o SelectSeq(entries, LAMBDA e : LogFilter(min, e))

----------------------------------------------------------------------------
(* Files.  A path is a record: the directory, and the parts of the file    *)
(* name the code concatenates (prefix, infix, timestamp, extension).       *)

Path(dir, pfx, kind, ts, ext) ==
    [dir |-> dir, pfx |-> pfx, kind |-> kind, ts |-> ts, ext |-> ext]

\* std::filesystem::path::filename(): the path without its directory
FileName(p) == [p EXCEPT !.dir = ""]

\* the file tests/FtpUploaderTests.cpp creates in SetUp, and the one it never creates
TestFile == Path("", "test_upload", "", 0, ".txt")
NonExistentFile == Path("", "nonexistent", "", 0, ".txt")

\* std::filesystem::exists(localFile)
LocalFileExistsMutant(files, f) == TRUE
LocalFileExists(files, f) == f \in files

----------------------------------------------------------------------------
(* Exceptions: std::runtime_error(what + detail) *)

NoExc == [what |-> "", detail |-> ""]
Exc(what, detail) == [what |-> what, detail |-> detail]

----------------------------------------------------------------------------
(* FtpUploader *)

\* the results of curl_easy_perform the model distinguishes
CurlFailures == {"CURLE_COULDNT_CONNECT", "CURLE_LOGIN_DENIED", "CURLE_ABORTED_BY_CALLBACK"}
CurlCodes == {"CURLE_OK"} \cup CurlFailures

\* what the transfer comes to when no callback stops it
NetworkResults == {"CURLE_OK", "CURLE_COULDNT_CONNECT", "CURLE_LOGIN_DENIED"}

\* curl_easy_strerror
StrError(res) ==
    CASE res = "CURLE_OK" -> "No error"
      [] res = "CURLE_COULDNT_CONNECT" -> "Couldn't connect to server"
      [] res = "CURLE_LOGIN_DENIED" -> "Login denied"
      [] res = "CURLE_ABORTED_BY_CALLBACK" -> "Operation was aborted by an application callback"

\* the timeout of the constructor's initialiser list, and the other value used
DefaultTimeout == 30
OtherTimeout == 5
\* maxRetries as the constructor's initialiser list sets it
CtorMaxRetries == 1
\* maxRetries as the header documents it and as its member initialiser reads
DocumentedMaxRetries == 3

\* FtpUploader::FtpUploader: the initialiser list overrides the header's
\* default member initialisers.  (curl_global_init is taken to succeed; its
\* failure adds a warning line and changes no field.)
FtpUploaderCtor(host, port, user, pass) ==
    [host |-> host, port |-> port, user |-> user, pass |-> pass,
     timeoutSeconds |-> DefaultTimeout, maxRetries |-> CtorMaxRetries,
     verbose |-> FALSE, hasProgressCb |-> FALSE, lastError |-> "",
     sslVerify |-> TRUE]

\* no uploader object
NoUploader == FtpUploaderCtor("", 0, "", "")

SetTimeout(u, seconds) == [u EXCEPT !.timeoutSeconds = seconds]
SetRetriesMutant(u, count) == [u EXCEPT !.maxRetries = count]
SetRetries(u, count) == [u EXCEPT !.maxRetries = Max(1, count)]
EnableVerbose(u, v) == [u EXCEPT !.verbose = v]
SetProgressCallback(u) == [u EXCEPT !.hasProgressCb = TRUE]
SetSslVerify(u, v) == [u EXCEPT !.sslVerify = v]
GetLastError(u) == u.lastError

(* buildUrl.  A directory is a sequence of characters. *)
ReplaceBackslashesMutant(d) == d
ReplaceBackslashes(d) == [i \in 1..Len(d) |-> IF d[i] = "\\" THEN "/" ELSE d[i]]

RECURSIVE StripLeading(_)
StripLeading(d) ==
    IF d # <<>> /\ Head(d) = "/" THEN StripLeading(Tail(d)) ELSE d

StripTrailingMutant(d) == d
RECURSIVE StripTrailing(_)
StripTrailing(d) ==
    IF d # <<>> /\ d[Len(d)] = "/" THEN StripTrailing(SubSeq(d, 1, Len(d) - 1)) ELSE d

CleanDir(remoteDir) == StripTrailing(StripLeading(ReplaceBackslashes(remoteDir)))

\* the URL as the sequence of the pieces streamed into it
BuildUrl(u, remoteDir, filename) ==
    <<"ftp://", u.host>>
    \o (IF u.port > 0 THEN <<":", ToString(u.port)>> ELSE <<>>)
    \o (IF CleanDir(remoteDir) # <<>> THEN <<"/">> \o CleanDir(remoteDir) ELSE <<>>)
    \o <<"/", filename.pfx, filename.kind, ToString(filename.ts), filename.ext>>

\* sleepForBackoff: 500LL * (1LL << min(attempt - 1, 6)) milliseconds
BackoffBaseMs == 500
BackoffMaxExp == 6
SleepForBackoffMutant(attempt) == BackoffBaseMs * Pow2(attempt - 1)
SleepForBackoff(attempt) == BackoffBaseMs * Pow2(Min(attempt - 1, BackoffMaxExp))

\* `while (attempt < maxRetries)`
LoopCondMutant(attempt, u) == attempt <= u.maxRetries
LoopCond(attempt, u) == attempt < u.maxRetries

BackoffCondMutant(attempt, u) == TRUE

\* `if (attempt < maxRetries)` before the backoff sleep
BackoffCond(attempt, u) == attempt < u.maxRetries

\* lastError.clear()
ClearErrorMutant(u) == u

ClearError(u) == [u EXCEPT !.lastError = ""]

\* lastError = curl_easy_strerror(res)
RecordErrorMutant(u, res) ==
    [u EXCEPT !.lastError = StrError(res), !.timeoutSeconds = DefaultTimeout]

RecordError(u, res) == [u EXCEPT !.lastError = StrError(res)]

\* curlProgress: what it returns to the transfer (0 continue, 1 abort) when
\* the client has a callback or not and the callback raises or returns; an
\* exception of the callback is caught
CurlProgressMutant(hasCb, raises) == 0

CurlProgress(hasCb, raises) == IF hasCb /\ raises THEN 1 ELSE 0

\* no transfer handle
NoHandle == [live |-> FALSE]

\* the options uploadFile sets on the handle of one attempt (curl_easy_setopt)
SetOptsMutant(u, url) ==
    [live |-> TRUE,
     url |-> url,
     username |-> u.user,
     password |-> u.pass,
     use_ssl |-> IF u.sslVerify THEN "CURLUSESSL_ALL" ELSE "CURLUSESSL_NONE",
     ssl_verifypeer |-> IF u.sslVerify THEN 1 ELSE 0,
     ssl_verifyhost |-> IF u.sslVerify THEN 2 ELSE 0,
     upload |-> 1,
     create_missing_dirs |-> "CURLFTP_CREATE_DIR_RETRY",
     connecttimeout |-> u.timeoutSeconds,
     ftp_response_timeout |-> u.timeoutSeconds,
     verbose |-> IF u.verbose THEN 1 ELSE 0,
     noprogress |-> IF u.hasProgressCb THEN 0 ELSE 1]
SetOpts(u, url) ==
    [live |-> TRUE,
     url |-> url,
     username |-> u.user,
     password |-> u.pass,
     use_ssl |-> "CURLUSESSL_ALL",
     ssl_verifypeer |-> IF u.sslVerify THEN 1 ELSE 0,
     ssl_verifyhost |-> IF u.sslVerify THEN 2 ELSE 0,
     upload |-> 1,
     create_missing_dirs |-> "CURLFTP_CREATE_DIR_RETRY",
     connecttimeout |-> u.timeoutSeconds,
     ftp_response_timeout |-> u.timeoutSeconds,
     verbose |-> IF u.verbose THEN 1 ELSE 0,
     noprogress |-> IF u.hasProgressCb THEN 0 ELSE 1]

\* the result of curl_easy_perform on the handle h: the transfer calls
\* curlProgress only when CURLOPT_NOPROGRESS is 0, and a nonzero return
\* aborts it
TransferResult(h, net, raises) ==
    IF h.noprogress = 0 /\ CurlProgress(TRUE, raises) # 0
    THEN "CURLE_ABORTED_BY_CALLBACK"
    ELSE net

\* the locals of uploadFile before a call
NoCall == [localFile |-> NonExistentFile, remoteDir |-> <<>>, url |-> <<>>, attempt |-> 0]

\* what the environment has seen of an uploadFile call: loop iterations begun,
\* handles created by curl_easy_init, curl_easy_perform calls, the backoff
\* sleeps in milliseconds, the results of the performs, how the call ended
\* ("" while it runs or before any call), the option sets its handles were
\* given, and for each perform whether the progress callback raised in it.
NoObs == [attempts |-> 0, handles |-> 0, performs |-> 0, sleeps |-> <<>>,
          results |-> <<>>, outcome |-> "", opts |-> {}, raised |-> <<>>]

\* where uploadFile goes when the local file cannot be opened or the handle
\* cannot be created: it throws
PcAfterSetupFailureMutant == "loop"
PcAfterSetupFailure == "threw"

\* where uploadFile goes after CURLE_OK: `return;`
PcAfterSuccessMutant == "loop"
PcAfterSuccess == "returned"

\* uploadFile, entry to the first loop test; `captured` is the log so far
UploadEnter(localFile, remoteDir, captured) ==
    /\ upc' = IF LocalFileExists(fs, localFile) THEN "loop" ELSE "threw"
    /\ upc \in {"none", "returned", "threw"}
    /\ log' = Emit(captured, minLevel,
                   <<Line("INFO", "Preparing to upload file", 0, "")>>
                   \o (IF LocalFileExists(fs, localFile) THEN <<>>
                       ELSE <<Line("ERROR", "Local file does not exist", 0, "")>>))
    /\ exc' = IF LocalFileExists(fs, localFile) THEN NoExc
              ELSE Exc("Local file does not exist", "")
    /\ call' = IF LocalFileExists(fs, localFile)
               THEN [localFile |-> localFile, remoteDir |-> remoteDir,
                     url |-> BuildUrl(up, remoteDir, FileName(localFile)),
                     attempt |-> 0]
               ELSE [NoCall EXCEPT !.localFile = localFile, !.remoteDir = remoteDir]
    /\ up' = IF LocalFileExists(fs, localFile) THEN ClearError(up) ELSE up
    /\ obs' = [NoObs EXCEPT !.outcome = IF LocalFileExists(fs, localFile) THEN "" ELSE "threw"]
    /\ curl' = NoHandle

\* one iteration of the loop up to curl_easy_perform: ++attempt, the attempt
\* line, fopen, curl_easy_init, the curl_easy_setopt calls, lastError.clear()
AttemptBegin(fpOk, curlOk) ==
    /\ upc = "loop"
    /\ LoopCond(call.attempt, up)
    /\ call' = [call EXCEPT !.attempt = call.attempt + 1]
    /\ IF fpOk /\ curlOk
       THEN /\ upc' = "perform"
            /\ curl' = SetOpts(up, call.url)
            /\ up' = ClearError(up)
            /\ log' = Emit(log, minLevel,
                           <<Line("INFO", "FTP upload attempt", call.attempt + 1, "")>>)
            /\ obs' = [obs EXCEPT !.attempts = @ + 1, !.handles = @ + 1,
                                  !.opts = @ \cup {SetOpts(up, call.url)}]
            /\ exc' = exc
       ELSE /\ upc' = PcAfterSetupFailure
            /\ curl' = NoHandle
            /\ up' = up
            /\ log' = Emit(log, minLevel,
                           <<Line("INFO", "FTP upload attempt", call.attempt + 1, ""),
                             Line("ERROR",
                                  IF ~fpOk THEN "Failed to open local file"
                                  ELSE "Failed to initialize curl", 0, "")>>)
            /\ obs' = [obs EXCEPT !.attempts = @ + 1,
                                  !.outcome = IF PcAfterSetupFailure = "threw"
                                              THEN "threw" ELSE @]
            /\ exc' = Exc(IF ~fpOk THEN "Failed to open local file"
                          ELSE "Failed to initialize curl", "")

\* curl_easy_perform, curl_easy_cleanup, and the handling of the result up
\* to the next loop test; `net` is what the network brings the transfer to
\* and `raises` whether the progress callback raises when it is called
Perform(net, raises) ==
  LET res == TransferResult(curl, net, raises)
      raised == curl.noprogress = 0 /\ raises
  IN
    /\ upc = "perform"
    /\ curl' = NoHandle
    /\ call' = call
    /\ IF res = "CURLE_OK"
       THEN /\ upc' = PcAfterSuccess
            /\ up' = up
            /\ log' = Emit(log, minLevel, <<Line("INFO", "FTP upload succeeded", 0, "")>>)
            /\ obs' = [obs EXCEPT !.performs = @ + 1,
                                  !.results = Append(@, res),
                                  !.raised = Append(@, raised),
                                  !.outcome = IF PcAfterSuccess = "returned"
                                              THEN "returned" ELSE @]
            /\ exc' = exc
       ELSE /\ upc' = "loop"
            /\ up' = RecordError(up, res)
            /\ log' = Emit(log, minLevel,
                           <<Line("WARNING", "FTP upload attempt failed", call.attempt,
                                  StrError(res))>>
                           \o (IF BackoffCond(call.attempt, up)
                               THEN <<Line("INFO", "Retrying after backoff...", 0, "")>>
                               ELSE <<>>))
            /\ obs' = [obs EXCEPT !.performs = @ + 1,
                                  !.results = Append(@, res),
                                  !.raised = Append(@, raised),
                                  !.sleeps = IF BackoffCond(call.attempt, up)
                                             THEN Append(@, SleepForBackoff(call.attempt))
                                             ELSE @]
            /\ exc' = exc

\* the loop test fails: all attempts failed
Exhausted ==
    /\ upc = "loop"
    /\ ~LoopCond(call.attempt, up)
    /\ upc' = "threw"
    /\ log' = Emit(log, minLevel,
                   <<Line("ERROR", "FTP upload failed after attempts", up.maxRetries,
                          up.lastError)>>)
    /\ exc' = Exc("FTP upload failed", up.lastError)
    /\ obs' = [obs EXCEPT !.outcome = "threw"]
    /\ UNCHANGED <<up, call, curl>>

\* the variables of the uploader and of its uploadFile call
upVars == <<up, upc, call, curl, obs>>

----------------------------------------------------------------------------
(* SqliteHelper *)

NoPath == Path("", "", "", 0, "")
NoDb == [open |-> FALSE, path |-> NoPath, table |-> FALSE, rows |-> 0, txnOpen |-> FALSE]

\* prefix + "_" + timestamp + ".sqlite"
DbPath(prefix, t) == Path(prefix.dir, prefix.pfx, "_", t, ".sqlite")

\* sqlitePrefix + "_backup_" + currentTimestamp() + ".sqlite"
DumpPath(prefix, t) == Path(prefix.dir, prefix.pfx, "_backup_", t, ".sqlite")

\* the statuses of sqlite3_backup_step
BusyStatuses == {"SQLITE_BUSY", "SQLITE_LOCKED"}
FatalStatuses == {"SQLITE_IOERR", "SQLITE_NOMEM"}
StepStatuses == {"SQLITE_OK", "SQLITE_DONE"} \cup BusyStatuses \cup FatalStatuses

\* `if (rc == SQLITE_BUSY || rc == SQLITE_LOCKED) sqlite3_sleep(50);`
BusySleepMs == 50
BusySleep(rc) == IF rc \in BusyStatuses THEN BusySleepMs ELSE 0

\* `while (rc == SQLITE_OK || rc == SQLITE_BUSY || rc == SQLITE_LOCKED)`
StepAgainMutant(rc) == rc = "SQLITE_OK"
StepAgain(rc) == rc \in {"SQLITE_OK", "SQLITE_BUSY", "SQLITE_LOCKED"}

BackupFailedMutant(rc, rcFinish) == rcFinish # "SQLITE_OK"
BackupFailedAndMutant(rc, rcFinish) == rc # "SQLITE_DONE" /\ rcFinish # "SQLITE_OK"

\* `if (rc != SQLITE_DONE || rcFinish != SQLITE_OK)` throw
BackupFailed(rc, rcFinish) == rc # "SQLITE_DONE" \/ rcFinish # "SQLITE_OK"

\* the rows the destination holds when `copied` of the `total` batches of a
\* source holding `rows` rows have been copied by sqlite3_backup_step
RowsOfBatches(rows, total, copied) == (rows * copied) \div total

\* the locals of backupToFile and the state of the sqlite3_backup object: the
\* status of the last step and of sqlite3_backup_finish, the milliseconds the
\* last pass slept, the batches of the source still to copy, the batches
\* copied, the rows of the source when the copy last (re)started, the rows
\* in the destination, the row counts the source has had during the call and
\* the writes of other connections to the source during the call
NoBackup == [rc |-> "SQLITE_OK", rcFinish |-> "none", slept |-> 0,
             remaining |-> 0, copied |-> 0, total |-> 0,
             snap |-> 0, destRows |-> 0, seen |-> {}, writes |-> 0,
             destOpen |-> FALSE, done |-> FALSE]

----------------------------------------------------------------------------
(* TempFileRemover *)

\* `removes` counts the std::filesystem::remove calls of the destructor
NoRemover == [active |-> FALSE, path |-> NoPath, removes |-> 0]

\* TempFileRemover::TempFileRemover
TempFileRemoverCtorMutant(p) == [active |-> FALSE, path |-> p, removes |-> 0]
TempFileRemoverCtor(p) == [active |-> TRUE, path |-> p, removes |-> 0]

\* ~TempFileRemover: the files left on disk
RemoveMutant(files, r) == files
Remove(files, r) ==
    IF r.active /\ r.path # NoPath THEN files \ {r.path} ELSE files

\* ~TempFileRemover: the line it logs
RemoveLines(r) ==
    IF r.active /\ r.path # NoPath
    THEN <<Line("INFO", "Temporary file removed", 0, "")>>
    ELSE <<>>

----------------------------------------------------------------------------
(* BackupManager::run *)

NoCfg == [sqlitePrefix |-> NoPath, ftpHost |-> "", ftpPort |-> 0, ftpUser |-> "",
          ftpPass |-> "", ftpDir |-> <<>>, sslVerify |-> FALSE, rows |-> 0,
          retries |-> 0, timeout |-> 0, logLevel |-> "INFO"]

ThrowMutant(what, detail) ==
    /\ exc' = Exc(what, detail)
    /\ rpc' = "uploader"

\* an exception leaves the try block of run()
Throw(what, detail) ==
    /\ exc' = Exc(what, detail)
    /\ rpc' = "throwing"

\* std::filesystem::create_directories("logs"); log.setLevel(logLevel);
\* SqliteHelper db(sqlitePrefix)
RunOpenDb(dirsOk, openOk) ==
    /\ rpc = "run"
    /\ IF ~dirsOk
       THEN /\ minLevel' = minLevel
            /\ db' = db
            /\ fs' = fs
            /\ log' = log
            /\ Throw("filesystem error", "")
       ELSE IF openOk
       THEN /\ minLevel' = cfg.logLevel
            /\ db' = [open |-> TRUE, path |-> DbPath(cfg.sqlitePrefix, now),
                      table |-> FALSE, rows |-> 0, txnOpen |-> FALSE]
            /\ fs' = fs \cup {DbPath(cfg.sqlitePrefix, now)}
            /\ log' = Emit(log, cfg.logLevel,
                           <<Line("INFO", "Opening SQLite database", 0, "")>>)
            /\ rpc' = "createTable"
            /\ exc' = exc
       ELSE /\ minLevel' = cfg.logLevel
            /\ db' = db
            /\ fs' = fs
            /\ log' = Emit(log, cfg.logLevel,
                           <<Line("INFO", "Opening SQLite database", 0, ""),
                             Line("ERROR", "Can't open SQLite DB", 0, "")>>)
            /\ Throw("Can't open SQLite DB", "")
    /\ UNCHANGED <<mode, upVars, upAlive, setterCalled, calls, cfg, bk, remover, now, runs, lg, pf,
                   result, exitCode, argv>>

\* db.createTable()
RunCreateTable(ok) ==
    /\ rpc = "createTable"
    /\ IF ok
       THEN /\ db' = [db EXCEPT !.table = TRUE]
            /\ log' = Emit(log, minLevel,
                           <<Line("INFO", "Creating table 'people' if not exists...", 0, ""),
                             Line("INFO", "Table 'people' ready.", 0, "")>>)
            /\ rpc' = "insertRandomRows"
            /\ exc' = exc
       ELSE /\ db' = db
            /\ log' = Emit(log, minLevel,
                           <<Line("INFO", "Creating table 'people' if not exists...", 0, ""),
                             Line("ERROR", "Failed to create table", 0, "")>>)
            /\ Throw("Failed to create table", "")
    /\ UNCHANGED <<mode, fs, minLevel, upVars, upAlive, setterCalled, calls, cfg, bk, remover, now, runs, lg, pf,
                   result, exitCode, argv>>

\* the ways insertRandomRows(count) ends
InsertOutcomes == {"ok", "begin", "prepare", "bind", "step", "commit"}

\* db.insertRandomRows(rows)
RunInsertRows(outcome) ==
    /\ rpc = "insertRandomRows"
    /\ outcome \in {"bind", "step"} => cfg.rows > 0
    /\ CASE outcome = "ok" ->
              /\ db' = [db EXCEPT !.rows = @ + cfg.rows]
              /\ log' = Emit(log, minLevel,
                             <<Line("INFO", "Inserting random rows...", cfg.rows, ""),
                               Line("INFO", "Inserted rows successfully.", cfg.rows, "")>>)
              /\ rpc' = "getRowCount"
              /\ exc' = exc
         [] outcome = "begin" ->
              /\ db' = db
              /\ log' = Emit(log, minLevel,
                             <<Line("INFO", "Inserting random rows...", cfg.rows, "")>>)
              /\ Throw("Failed to begin transaction", "")
         [] outcome = "prepare" ->
              \* thrown before the try block: no ROLLBACK is executed
              /\ db' = [db EXCEPT !.txnOpen = TRUE]
              /\ log' = Emit(log, minLevel,
                             <<Line("INFO", "Inserting random rows...", cfg.rows, ""),
                               Line("ERROR", "Failed to prepare insert statement", 0, "")>>)
              /\ Throw("Failed to prepare insert statement", "")
         [] outcome \in {"bind", "step", "commit"} ->
              \* caught inside: ROLLBACK, the error line, rethrown
              /\ db' = db
              /\ log' = Emit(log, minLevel,
                             <<Line("INFO", "Inserting random rows...", cfg.rows, ""),
                               Line("ERROR", "Transaction rolled back due to error during insertRandomRows", 0, "")>>)
              /\ Throw(CASE outcome = "bind" -> "Failed to bind values at row"
                         [] outcome = "step" -> "Insert failed at row"
                         [] outcome = "commit" -> "Failed to commit transaction", "")
    /\ UNCHANGED <<mode, fs, minLevel, upVars, upAlive, setterCalled, calls, cfg, bk, remover, now, runs, lg, pf,
                   result, exitCode, argv>>

\* log.info("Total rows after insert: " + db.getRowCount()); the dump path;
\* TempFileRemover remover(dumpFile)
RunRowCount(ok) ==
    /\ rpc = "getRowCount"
    /\ IF ok
       THEN /\ log' = Emit(log, minLevel,
                           <<Line("INFO", "Current row count", db.rows, ""),
                             Line("INFO", "Total rows after insert", db.rows, "")>>)
            /\ remover' = TempFileRemoverCtor(DumpPath(cfg.sqlitePrefix, now))
            /\ rpc' = "backupToFile"
            /\ exc' = exc
       ELSE /\ log' = log
            /\ remover' = remover
            /\ Throw("Failed to prepare count statement", "")
    /\ UNCHANGED <<mode, fs, minLevel, upVars, upAlive, setterCalled, calls, cfg, db, bk, now, runs, lg, pf,
                   result, exitCode, argv>>

\* backupToFile up to the copy loop: sqlite3_open of the destination (which
\* creates the file) and sqlite3_backup_init.  The source holds `batches`
\* batches of 1024 pages.
BackupOpen(openOk, created, initOk, batches) ==
    /\ rpc = "backupToFile"
    /\ log' = Emit(log, minLevel, <<Line("INFO", "Performing binary backup to file", 0, "")>>)
    /\ IF openOk /\ initOk
       THEN /\ fs' = fs \cup {remover.path}
            /\ bk' = [rc |-> "SQLITE_OK", rcFinish |-> "none", slept |-> 0,
                      remaining |-> batches, copied |-> 0, total |-> batches,
                      snap |-> db.rows, destRows |-> 0, seen |-> {db.rows},
                      writes |-> 0, destOpen |-> TRUE, done |-> FALSE]
            /\ rpc' = "backupStep"
            /\ exc' = exc
       ELSE /\ fs' = IF openOk \/ created THEN fs \cup {remover.path} ELSE fs
            /\ bk' = bk
            /\ Throw(IF ~openOk THEN "Failed to open destination DB"
                     ELSE "sqlite3_backup_init failed", "")
    /\ UNCHANGED <<mode, minLevel, upVars, upAlive, setterCalled, calls, cfg, db, remover, now, runs, lg, pf,
                   result, exitCode, argv>>

\* the status sqlite3_backup_step(backup, 1024) can return with `remaining`
\* batches left: OK after a batch when more remain, DONE after the last one,
\* BUSY or LOCKED with nothing copied, or a fatal status
StepPossible(rc, remaining) ==
    \/ rc = "SQLITE_OK" /\ remaining > 1
    \/ rc = "SQLITE_DONE" /\ remaining <= 1
    \/ rc \in BusyStatuses \cup FatalStatuses

\* one pass of the do-while: sqlite3_backup_step, and sqlite3_sleep(50) on
\* BUSY or LOCKED.  BUSY and LOCKED come from another connection holding the
\* source; when that connection has written to the source (`written`),
\* sqlite3_backup_step restarts the copy from the changed source.
BackupStep(rc, written) ==
    /\ rpc = "backupStep"
    /\ StepPossible(rc, bk.remaining)
    /\ written => rc \in BusyStatuses /\ bk.writes < MaxExternalWrites
    /\ LET copies == rc \in {"SQLITE_OK", "SQLITE_DONE"}
           copied == IF written THEN 0
                     ELSE IF copies THEN Min(bk.total, bk.copied + 1)
                     ELSE bk.copied
           rows == IF written THEN db.rows + 1 ELSE db.rows
           snap == IF written THEN rows ELSE bk.snap
       IN  /\ bk' = [bk EXCEPT !.rc = rc,
                               !.slept = BusySleep(rc),
                               !.remaining = IF written THEN bk.total
                                             ELSE IF copies THEN Max(0, @ - 1)
                                             ELSE @,
                               !.copied = copied,
                               !.snap = snap,
                               !.destRows = RowsOfBatches(snap, bk.total, copied),
                               !.seen = @ \cup {rows},
                               !.writes = IF written THEN @ + 1 ELSE @]
           /\ db' = [db EXCEPT !.rows = rows]
    /\ rpc' = IF StepAgain(rc) THEN "backupStep" ELSE "backupFinish"
    /\ UNCHANGED <<mode, fs, minLevel, log, upVars, upAlive, setterCalled, calls, cfg, remover,
                   exc, now, runs, lg, pf, result, exitCode, argv>>

\* sqlite3_backup_finish and the test of both statuses; the destination is
\* closed by destGuard on either path
BackupFinish(rcFinish) ==
    /\ rpc = "backupFinish"
    /\ IF BackupFailed(bk.rc, rcFinish)
       THEN /\ bk' = [bk EXCEPT !.destOpen = FALSE, !.rcFinish = rcFinish]
            /\ log' = log
            /\ Throw("sqlite3_backup failed", "")
       ELSE /\ bk' = [bk EXCEPT !.destOpen = FALSE, !.rcFinish = rcFinish,
                                !.done = TRUE]
            /\ log' = Emit(log, minLevel,
                           <<Line("INFO", "Binary backup completed successfully to", 0, ""),
                             Line("INFO", "Database binary backup created at", 0, "")>>)
            /\ rpc' = "uploader"
            /\ exc' = exc
    /\ UNCHANGED <<mode, fs, minLevel, upVars, upAlive, setterCalled, calls, cfg, db, remover, now, runs, lg, pf,
                   result, exitCode, argv>>

\* FtpUploader uploader(...), the setters, the progress callback and
\* log.info("Starting upload to directory: ...")
RunMakeUploader ==
    /\ rpc = "uploader"
    /\ upAlive' = TRUE
    /\ setterCalled' = TRUE
    /\ up' = SetProgressCallback(
               SetSslVerify(
                 SetTimeout(
                   SetRetries(
                     EnableVerbose(
                       FtpUploaderCtor(cfg.ftpHost, cfg.ftpPort, cfg.ftpUser, cfg.ftpPass),
                       TRUE),
                     cfg.retries),
                   cfg.timeout),
                 cfg.sslVerify))
    /\ log' = Emit(log, minLevel,
                   <<Line("INFO", "FtpUploader initialized for host", 0, ""),
                     Line("INFO", "Starting upload to directory", 0, "")>>)
    /\ rpc' = "uploadFile"
    /\ UNCHANGED <<mode, fs, minLevel, upc, call, curl, obs, calls, cfg, db, bk,
                   remover, exc, now, runs, lg, pf, result, exitCode, argv>>

\* uploader.uploadFile(dumpFile, ftpDir)
RunUploadFile ==
    /\ rpc = "uploadFile"
    /\ upc = "none"
    /\ UploadEnter(remover.path, cfg.ftpDir, log)
    /\ UNCHANGED <<mode, fs, minLevel, upAlive, setterCalled, calls, rpc, cfg, db, bk, remover,
                   now, runs, lg, pf, result, exitCode, argv>>

\* the lines the destructors of run()'s locals log, in the order they run:
\* ~FtpUploader, ~TempFileRemover, ~SqliteHelper
DestructorLines ==
    (IF upAlive THEN <<Line("INFO", "FtpUploader destroyed for host", 0, "")>> ELSE <<>>)
    \o RemoveLines(remover)
    \o (IF db.open THEN <<Line("INFO", "SQLite database closed", 0, "")>> ELSE <<>>)

\* the locals of run() are destroyed
Destructors ==
    /\ upAlive' = FALSE
    /\ setterCalled' = setterCalled
    /\ fs' = Remove(fs, remover)
    /\ remover' = [remover EXCEPT !.active = FALSE,
                                  !.removes = IF remover.active /\ remover.path # NoPath
                                              THEN @ + 1 ELSE @]
    /\ db' = [db EXCEPT !.open = FALSE]

\* what the catch blocks of run() return
CatchReturnMutant == "true"
CatchReturn == "false"

\* uploadFile returned: log.info("Upload finished successfully."), the end of
\* the try block, `return true`
RunReturn ==
    /\ rpc = "uploadFile"
    /\ upc = "returned"
    /\ log' = Emit(log, minLevel,
                   <<Line("INFO", "Upload finished successfully.", 0, "")>>
                   \o DestructorLines)
    /\ Destructors
    /\ result' = "true"
    /\ rpc' = "returned"
    /\ UNCHANGED <<mode, minLevel, upVars, calls, cfg, bk, exc, now, runs, lg, pf, exitCode, argv>>

\* an exception leaves the try block: before the handler is entered the stack
\* is unwound, which destroys the locals constructed so far
RunUnwind ==
    /\ \/ rpc = "throwing"
       \/ rpc = "uploadFile" /\ upc = "threw"
    /\ log' = Emit(log, minLevel, DestructorLines)
    /\ Destructors
    /\ rpc' = "catch"
    /\ UNCHANGED <<mode, minLevel, upVars, calls, cfg, bk, exc, now, runs, lg, pf, result, exitCode, argv>>

\* what `catch (const std::exception& ex)` logs
CatchLinesMutant(e) == <<>>
CatchLines(e) == <<Line("ERROR", "Exception during backup/upload", 0, e.what)>>

\* the handler: Logger::instance().error(...); return false;
RunCatch ==
    /\ rpc = "catch"
    /\ log' = Emit(log, minLevel, CatchLines(exc))
    /\ result' = CatchReturn
    /\ rpc' = "returned"
    /\ UNCHANGED <<mode, fs, minLevel, upVars, upAlive, setterCalled, calls, cfg, db, bk,
                   remover, exc, now, runs, lg, pf, exitCode, argv>>

----------------------------------------------------------------------------
(* main *)

EXIT_OK == 0
EXIT_INVALID_ARGS == 1
EXIT_UPLOAD_FAILED == 2
EXIT_CONFIG_ERROR == 3

\* the defaults main gives the options
DefaultRows == 100
DefaultRetries == 3
MaxPort == 65535

\* One element of argv: `text` is the element up to its first '=', `eq` says
\* whether it holds a '=', `rhs` is what follows the '='.
Tok(text) == [text |-> text, eq |-> FALSE, rhs |-> ""]
TokEq(text, rhs) == [text |-> text, eq |-> TRUE, rhs |-> rhs]

\* the integers the command lines of the model spell
ArgInts == (-1)..(MaxRetriesArg + 1) \cup {21, 60, 100, 70000}

\* std::stoi / std::stol: defined on the elements that start with a number
IsNumber(tok) == \E i \in ArgInts : ToString(i) = tok.text
StoI(tok) == CHOOSE i \in ArgInts : ToString(i) = tok.text

\* what the option loop of main has computed
MainDefaults == [code |-> EXIT_OK, sslVerify |-> FALSE, rows |-> DefaultRows,
                 retries |-> DefaultRetries, timeout |-> DefaultTimeout,
                 logLevel |-> "INFO"]

Invalid(acc) == [acc EXCEPT !.code = EXIT_INVALID_ARGS]

\* --retries N: `if (retries < 0) throw`
RetriesAccepted(n) == n >= 0

\* the loop `for (int i = 7; i < argc; ++i)` over the options `args`, from
\* element i on; parseOptionalFlag takes the value from behind the '=' or
\* from the next element, which it consumes
RECURSIVE ParseOptions(_, _, _)
ParseOptions(args, i, acc) ==
    IF i > Len(args) THEN acc
    ELSE LET arg == args[i]
             hasValue == arg.eq \/ i + 1 <= Len(args)
             value == IF arg.eq THEN Tok(arg.rhs)
                      ELSE IF i + 1 <= Len(args) THEN args[i + 1] ELSE Tok("")
             next == IF arg.eq THEN i + 1 ELSE i + 2
             flag == arg.text
         IN IF ~hasValue THEN Invalid(acc)
            ELSE CASE flag = "--no-ssl-verify" ->
                        ParseOptions(args, next, [acc EXCEPT !.sslVerify = FALSE])
                   [] flag = "--rows" ->
                        IF IsNumber(value) /\ StoI(value) > 0
                        THEN ParseOptions(args, next, [acc EXCEPT !.rows = StoI(value)])
                        ELSE Invalid(acc)
                   [] flag = "--retries" ->
                        IF IsNumber(value) /\ RetriesAccepted(StoI(value))
                        THEN ParseOptions(args, next, [acc EXCEPT !.retries = StoI(value)])
                        ELSE Invalid(acc)
                   [] flag = "--timeout" ->
                        IF IsNumber(value) /\ StoI(value) > 0
                        THEN ParseOptions(args, next, [acc EXCEPT !.timeout = StoI(value)])
                        ELSE Invalid(acc)
                   [] flag = "--log-level" ->
                        IF value = Tok("debug")
                        THEN ParseOptions(args, next, [acc EXCEPT !.logLevel = "DEBUG"])
                        ELSE IF value = Tok("info")
                        THEN ParseOptions(args, next, [acc EXCEPT !.logLevel = "INFO"])
                        ELSE IF value = Tok("warn")
                        THEN ParseOptions(args, next, [acc EXCEPT !.logLevel = "WARNING"])
                        ELSE IF value = Tok("error")
                        THEN ParseOptions(args, next, [acc EXCEPT !.logLevel = "ERROR"])
                        ELSE Invalid(acc)
                   [] OTHER -> Invalid(acc)

\* the characters of a directory argument
DirChars(text) ==
    CASE text = "FTP" -> <<"F", "T", "P">>
      [] text = "/a/b/" -> <<"/", "a", "/", "b", "/">>
      [] OTHER -> <<text>>

\* A command line: the arguments after the program name, and whether the
\* environment holds FTP_PASS.
\* main up to the call of run(): the exit code it returns at once, or EXIT_OK
\* and the fields of the BackupManager it constructs
MainSetup(cmd) ==
    LET args == cmd.args
        o == ParseOptions(SubSeq(args, 7, Len(args)), 1, MainDefaults)
    IN IF Len(args) + 1 < 7 THEN [code |-> EXIT_INVALID_ARGS, cfg |-> NoCfg]
       ELSE IF ~IsNumber(args[3]) \/ StoI(args[3]) <= 0 \/ StoI(args[3]) > MaxPort
       THEN [code |-> EXIT_INVALID_ARGS, cfg |-> NoCfg]
       ELSE IF o.code # EXIT_OK THEN [code |-> o.code, cfg |-> NoCfg]
       ELSE IF args[5] = Tok("-") /\ ~cmd.envPass
       THEN [code |-> EXIT_CONFIG_ERROR, cfg |-> NoCfg]
       ELSE [code |-> EXIT_OK,
             cfg |-> [sqlitePrefix |-> Path("", args[1].text, "", 0, ""),
                      ftpHost |-> args[2].text, ftpPort |-> StoI(args[3]),
                      ftpUser |-> args[4].text,
                      ftpPass |-> IF args[5] = Tok("-") THEN "$FTP_PASS" ELSE args[5].text,
                      ftpDir |-> DirChars(args[6].text),
                      sslVerify |-> o.sslVerify, rows |-> o.rows,
                      retries |-> o.retries, timeout |-> o.timeout,
                      logLevel |-> o.logLevel]]

\* the six positional arguments
Positional ==
    <<Tok("pfx"), Tok("127.0.0.1"), Tok("21"), Tok("user"), Tok("secret"), Tok("FTP")>>

Cmd(options) == [args |-> Positional \o options, envPass |-> TRUE]

\* the command lines main is started with
CommandLines ==
    {Cmd(<<>>)}
    \cup {Cmd(<<Tok("--retries"), Tok(ToString(n))>>) : n \in (-1)..MaxRetriesArg}
    \cup {Cmd(<<Tok("--retries"), Tok(ToString(n)), Tok("--log-level"), Tok("error")>>) :
            n \in 0..2}
    \cup {Cmd(<<TokEq("--retries", "2")>>),
          Cmd(<<Tok("--retries"), Tok("many")>>),
          Cmd(<<Tok("--no-ssl-verify")>>),
          Cmd(<<Tok("--no-ssl-verify"), Tok("--retries"), Tok("2")>>),
          Cmd(<<Tok("--retries"), Tok("2"), Tok("--no-ssl-verify")>>),
          Cmd(<<Tok("--no-ssl-verify"), TokEq("--retries", "2")>>),
          Cmd(<<Tok("--log-level"), Tok("debug")>>),
          Cmd(<<Tok("--log-level"), Tok("bogus")>>),
          Cmd(<<Tok("--timeout"), Tok("60")>>),
          Cmd(<<Tok("--timeout"), Tok("0")>>),
          Cmd(<<Tok("--rows"), Tok("2")>>),
          Cmd(<<Tok("--rows"), Tok("0")>>),
          Cmd(<<Tok("--verbose"), Tok("1")>>),
          [args |-> SubSeq(Positional, 1, 5), envPass |-> TRUE],
          [args |-> [Positional EXCEPT ![3] = Tok("70000")], envPass |-> TRUE],
          [args |-> [Positional EXCEPT ![3] = Tok("ftp")], envPass |-> TRUE],
          [args |-> [Positional EXCEPT ![5] = Tok("-")], envPass |-> TRUE],
          [args |-> [Positional EXCEPT ![5] = Tok("-")], envPass |-> FALSE]}

NoCmd == [args |-> <<>>, envPass |-> FALSE]

\* main from its start to the call of mgr.run(), or to its early return
Main(cmd) ==
    /\ mode = "none"
    /\ mode' = "main"
    /\ argv' = cmd
    /\ IF MainSetup(cmd).code = EXIT_OK
       THEN /\ cfg' = MainSetup(cmd).cfg
            /\ log' = Emit(log, minLevel, <<Line("INFO", "Starting backup.", 0, "")>>)
            /\ rpc' = "run"
            /\ exitCode' = exitCode
       ELSE /\ cfg' = cfg
            /\ log' = log
            /\ rpc' = "exited"
            /\ exitCode' = MainSetup(cmd).code
    /\ UNCHANGED <<fs, minLevel, upVars, upAlive, setterCalled, calls, db, bk, remover, exc, now, runs, lg, pf, result>>

\* `if (!success) return EXIT_UPLOAD_FAILED; ... return 0;`
MainExit ==
    /\ rpc = "returned"
    /\ rpc' = "exited"
    /\ exitCode' = IF result = "true" THEN EXIT_OK ELSE EXIT_UPLOAD_FAILED
    /\ UNCHANGED <<mode, fs, minLevel, log, upVars, upAlive, setterCalled, calls, cfg, db, bk,
                   remover, exc, now, runs, lg, pf, result, argv>>

----------------------------------------------------------------------------
(* A client of FtpUploader (tests/FtpUploaderTests.cpp): it constructs an    *)
(* uploader, calls setters, then calls uploadFile and catches what it       *)
(* throws.  It captures the console output of each uploadFile call.         *)

\* FtpUploader uploader("127.0.0.1", 21, "user", "pass")
ClientConstruct ==
    /\ mode = "none"
    /\ mode' = "client"
    /\ up' = FtpUploaderCtor("127.0.0.1", 21, "user", "pass")
    /\ upAlive' = TRUE
    /\ setterCalled' = FALSE
    /\ fs' = {TestFile}
    /\ log' = Emit(log, minLevel, <<Line("INFO", "FtpUploader initialized for host", 0, "")>>)
    /\ UNCHANGED <<minLevel, upc, call, curl, obs, calls, rpc, cfg, db, bk, remover,
                   exc, now, runs, lg, pf, result, exitCode, argv>>

\* the client may call a setter
ClientIdle == mode = "client" /\ upc = "none" /\ calls = 0

ClientSetRetries(count) ==
    /\ ClientIdle
    /\ up' = SetRetries(up, count)
    /\ setterCalled' = TRUE
    /\ UNCHANGED <<mode, fs, minLevel, log, upAlive, upc, call, curl, obs, calls, rpc,
                   cfg, db, bk, remover, exc, now, runs, lg, pf, result, exitCode, argv>>

ClientSetTimeout(seconds) ==
    /\ ClientIdle
    /\ up' = SetTimeout(up, seconds)
    /\ setterCalled' = TRUE
    /\ UNCHANGED <<mode, fs, minLevel, log, upAlive, upc, call, curl, obs, calls, rpc,
                   cfg, db, bk, remover, exc, now, runs, lg, pf, result, exitCode, argv>>

ClientEnableVerbose(v) ==
    /\ ClientIdle
    /\ up' = EnableVerbose(up, v)
    /\ setterCalled' = TRUE
    /\ UNCHANGED <<mode, fs, minLevel, log, upAlive, upc, call, curl, obs, calls, rpc,
                   cfg, db, bk, remover, exc, now, runs, lg, pf, result, exitCode, argv>>

ClientSetSslVerify(v) ==
    /\ ClientIdle
    /\ up' = SetSslVerify(up, v)
    /\ setterCalled' = TRUE
    /\ UNCHANGED <<mode, fs, minLevel, log, upAlive, upc, call, curl, obs, calls, rpc,
                   cfg, db, bk, remover, exc, now, runs, lg, pf, result, exitCode, argv>>

\* uploader.uploadFile(localFile, "remote") with a fresh capture of the console
ClientUpload(localFile) ==
    /\ mode = "client"
    /\ calls < MaxCalls
    /\ calls' = calls + 1
    /\ UploadEnter(localFile, <<"r", "e", "m", "o", "t", "e">>, <<>>)
    /\ UNCHANGED <<mode, fs, minLevel, upAlive, setterCalled, rpc, cfg, db, bk, remover, now, runs, lg, pf,
                   result, exitCode, argv>>

----------------------------------------------------------------------------
(* The steps of an uploadFile call in progress, in either mode *)

UploadAttemptBegin ==
    /\ \E fpOk, curlOk \in BOOLEAN : AttemptBegin(fpOk, curlOk)
    /\ UNCHANGED <<mode, fs, minLevel, upAlive, setterCalled, calls, rpc, cfg, db, bk, remover,
                   now, runs, lg, pf, result, exitCode, argv>>

\* the transfer of an attempt; the callback run() installs only writes a
\* debug line and the tests install none, so no callback raises here
UploadPerform ==
    /\ \E net \in NetworkResults : Perform(net, FALSE)
    /\ UNCHANGED <<mode, fs, minLevel, upAlive, setterCalled, calls, rpc, cfg, db, bk, remover,
                   now, runs, lg, pf, result, exitCode, argv>>

UploadExhausted ==
    /\ Exhausted
    /\ UNCHANGED <<mode, fs, minLevel, upAlive, setterCalled, calls, rpc, cfg, db, bk, remover,
                   now, runs, lg, pf, result, exitCode, argv>>

----------------------------------------------------------------------------
(* Concurrent runs: BackupManager::run called on several threads of one    *)
(* process.  The threads share the disk (fs) and the wall clock (now).     *)

\* the threads that call run() or Logger::log concurrently
Threads == {"t1", "t2"}

\* the sqlitePrefix values the concurrent runs are given
Prefixes == {Path("", "pfx", "", 0, ""), Path("", "other", "", 0, "")}

\* a thread that has not called run(): its position, its prefix, its dumpFile
\* and remover locals, and how its uploadFile call ended
NoRun == [pc |-> "idle", prefix |-> NoPath, dumpFile |-> NoPath,
          remover |-> NoRemover, upload |-> "none"]

\* the variables only the sequential program uses
seqVars == <<mode, minLevel, log, up, upAlive, setterCalled, upc, call, curl, obs, calls,
             rpc, cfg, db, bk, remover, exc, result, exitCode, argv>>

\* std::string dumpFile = sqlitePrefix + "_backup_" + currentTimestamp() +
\* ".sqlite"; TempFileRemover remover(dumpFile);
ThreadDumpFile(t, prefix) ==
    /\ runs[t].pc = "idle"
    /\ runs' = [runs EXCEPT ![t] = [pc |-> "backupToFile", prefix |-> prefix,
                                    dumpFile |-> DumpPath(prefix, now),
                                    remover |-> TempFileRemoverCtor(DumpPath(prefix, now)),
                                    upload |-> "none"]]
    /\ UNCHANGED <<seqVars, fs, now, lg, pf>>

\* db.backupToFile(dumpFile): sqlite3_open creates the destination when it is
\* not on disk; the call returns or throws
ThreadBackup(t, ok) ==
    /\ runs[t].pc = "backupToFile"
    /\ fs' = fs \cup {runs[t].dumpFile}
    /\ runs' = [runs EXCEPT ![t].pc = IF ok THEN "uploadFile" ELSE "unwind"]
    /\ UNCHANGED <<seqVars, now, lg, pf>>

\* uploader.uploadFile(dumpFile, ftpDir): throws at once when the file is not
\* on disk, else it returns or throws after its attempts
ThreadUpload(t, ok) ==
    /\ runs[t].pc = "uploadFile"
    /\ runs' = [runs EXCEPT ![t].pc = "unwind",
                            ![t].upload = IF ~LocalFileExists(fs, runs[t].dumpFile)
                                          THEN "missing"
                                          ELSE IF ok THEN "returned" ELSE "threw"]
    /\ UNCHANGED <<seqVars, fs, now, lg, pf>>

\* the try block is left: ~TempFileRemover
ThreadCleanup(t) ==
    /\ runs[t].pc = "unwind"
    /\ fs' = Remove(fs, runs[t].remover)
    /\ runs' = [runs EXCEPT ![t].pc = "done", ![t].remover.active = FALSE]
    /\ UNCHANGED <<seqVars, now, lg, pf>>

\* a second of wall-clock time passes
Tick ==
    /\ now < MaxClock
    /\ now' = now + 1
    /\ UNCHANGED <<seqVars, fs, runs, lg, pf>>

----------------------------------------------------------------------------
(* The Logger singleton used by several threads.  A message is written to  *)
(* std::cout in three parts (colour, text, reset) and then to the file.    *)

\* the parts of `std::cout << levelToColor(lvl) << message << "\033[0m"`
Parts == <<"color", "message", "reset">>

\* the levels the threads log at and set
ThreadLevels == {"WARNING", "ERROR"}

\* the Logger before its construction: the mutex (its holder or "none"), the
\* minimum level, the rotation limit counted in messages, the open file and
\* its content, what std::cout has received, every message written to a log
\* file, the second in the name of the open file, the content on disk of the
\* log file of each second's name, and per thread its position in log(), its
\* last log() call (its number, its level and the minimum level it met) and
\* the calls it has made
NoLogger == [made |-> FALSE, mtx |-> "none", minLevel |-> "DEBUG", maxFileSize |-> 0,
             fileOpen |-> FALSE, file |-> <<>>, console |-> <<>>, fileLog |-> <<>>,
             name |-> 0, disk |-> [n \in 0..MaxClock |-> <<>>],
             pc |-> [t \in Threads |-> "idle"],
             cur |-> [t \in Threads |-> [k |-> 0, lvl |-> "DEBUG", min |-> "DEBUG"]],
             sent |-> [t \in Threads |-> 0]]

\* std::mutex: whether lock() can return
MutexFreeMutant(m) == TRUE
MutexFree(m) == m = "none"

\* openNewLogFile at second t: file_.open("logs/app_<t>.log", std::ios::out)
\* creates the file of that name or truncates it; the open may fail
OpenNewLogFile(l, t, openOk) ==
    IF openOk
    THEN [l EXCEPT !.fileOpen = TRUE, !.file = <<>>, !.name = t, !.disk[t] = <<>>]
    ELSE [l EXCEPT !.fileOpen = FALSE, !.file = <<>>]

\* Logger::Logger: create_directories and openNewLogFile, which may fail
LoggerCtor(openOk) ==
    /\ ~lg.made
    /\ lg' = [OpenNewLogFile(lg, now, openOk) EXCEPT !.made = TRUE]
    /\ UNCHANGED <<seqVars, fs, now, runs, pf>>

\* Logger::setLevel: lock, assign, unlock
LoggerSetLevel(t, lvl) ==
    /\ lg.made /\ lg.pc[t] = "idle"
    /\ MutexFree(lg.mtx)
    /\ lg' = [lg EXCEPT !.minLevel = lvl]
    /\ UNCHANGED <<seqVars, fs, now, runs, pf>>

\* Logger::setMaxFileSize: assigns without the mutex
LoggerSetMaxFileSize(t, size) ==
    /\ lg.made /\ lg.pc[t] = "idle"
    /\ lg' = [lg EXCEPT !.maxFileSize = size]
    /\ UNCHANGED <<seqVars, fs, now, runs, pf>>

\* Logger::log is called: `if (lvl < minLevel_) return;` is evaluated before
\* the mutex is taken
LogCall(t, lvl) ==
    /\ lg.made /\ lg.pc[t] = "idle"
    /\ lg.sent[t] < MaxMessages
    /\ lg' = [lg EXCEPT !.sent[t] = @ + 1,
                        !.cur[t] = [k |-> lg.sent[t] + 1, lvl |-> lvl,
                                    min |-> lg.minLevel],
                        !.pc[t] = IF LogFilter(lg.minLevel, [lvl |-> lvl])
                                  THEN "lock" ELSE "idle"]
    /\ UNCHANGED <<seqVars, fs, now, runs, pf>>

\* std::lock_guard<std::mutex> lock(mtx_); and the message is built
LogLock(t) ==
    /\ lg.pc[t] = "lock"
    /\ MutexFree(lg.mtx)
    /\ lg' = [lg EXCEPT !.mtx = t, !.pc[t] = "color"]
    /\ UNCHANGED <<seqVars, fs, now, runs, pf>>

\* one operator<< of the console output
LogConsole(t) ==
    /\ lg.pc[t] \in {"color", "message", "reset"}
    /\ lg' = [lg EXCEPT !.console = Append(@, [t |-> t, k |-> lg.cur[t].k,
                                               part |-> lg.pc[t]]),
                        !.pc[t] = CASE lg.pc[t] = "color" -> "message"
                                    [] lg.pc[t] = "message" -> "reset"
                                    [] OTHER -> "file"]
    /\ UNCHANGED <<seqVars, fs, now, runs, pf>>

\* the file output: write and flush when the file is open, then the rotation,
\* whose openNewLogFile may fail
LogFile(t, openOk) ==
    /\ lg.pc[t] = "file"
    /\ LET msg == [t |-> t, k |-> lg.cur[t].k]
           rotate == lg.maxFileSize > 0 /\ Len(lg.file) + 1 >= lg.maxFileSize
           written == [lg EXCEPT !.file = Append(@, msg),
                                 !.disk[lg.name] = Append(@, msg),
                                 !.fileLog = Append(@, msg),
                                 !.pc[t] = "unlock"]
       IN  lg' = IF lg.fileOpen
                 THEN IF rotate THEN OpenNewLogFile(written, now, openOk) ELSE written
                 ELSE [lg EXCEPT !.pc[t] = "unlock"]
    /\ UNCHANGED <<seqVars, fs, now, runs, pf>>

\* log() returns: the lock_guard releases the mutex
LogUnlock(t) ==
    /\ lg.pc[t] = "unlock"
    /\ lg' = [lg EXCEPT !.mtx = "none", !.pc[t] = "idle"]
    /\ UNCHANGED <<seqVars, fs, now, runs, pf>>

----------------------------------------------------------------------------
(* FtpUploader::buildUrl called as tests/FtpUploaderTests.cpp calls it: on *)
(* an uploader for 127.0.0.1, with a directory string and a file name.     *)
(* After the call on a directory the client calls it again on variants of  *)
(* that directory.                                                         *)

\* no function has been called yet
NoCallYet == [op |-> "none"]

\* the characters of the directory strings
Separators == {"/", "\\"}
DirAlphabet == {"a", "b"} \cup Separators
Dirs == UNION {[1..n -> DirAlphabet] : n \in 0..MaxDirLen}

\* the ports of the uploaders the client constructs
UrlPorts == {-1, 0, 21}

\* uploader.buildUrl(dir, "test_upload.txt") on FtpUploader("127.0.0.1", port, ...)
UrlOf(port, dir) ==
    BuildUrl(FtpUploaderCtor("127.0.0.1", port, "user", "pass"), dir, FileName(TestFile))

\* the first call
UrlCall(dir, port) ==
    /\ pf.op = "none"
    /\ pf' = [op |-> "buildUrl", port |-> port, base |-> dir, dir |-> dir,
              baseUrl |-> UrlOf(port, dir), url |-> UrlOf(port, dir)]
    /\ UNCHANGED <<seqVars, fs, now, runs, lg>>

\* the call on the directory `dir`, a variant of the first one
UrlCallVariant(dir) ==
    /\ pf.op = "buildUrl"
    /\ Len(dir) <= MaxVariantLen
    /\ pf' = [pf EXCEPT !.dir = dir, !.url = UrlOf(pf.port, dir)]
    /\ UNCHANGED <<seqVars, fs, now, runs, lg>>

\* the variants: a leading or trailing slash or backslash more or less, a
\* forward slash replaced by a backslash
VariantAddLeading(c) == UrlCallVariant(<<c>> \o pf.dir)
VariantAddTrailing(c) == UrlCallVariant(Append(pf.dir, c))
VariantRemoveLeading ==
    /\ pf.op = "buildUrl" /\ pf.dir # <<>> /\ Head(pf.dir) \in Separators
    /\ UrlCallVariant(Tail(pf.dir))
VariantRemoveTrailing ==
    /\ pf.op = "buildUrl" /\ pf.dir # <<>> /\ pf.dir[Len(pf.dir)] \in Separators
    /\ UrlCallVariant(SubSeq(pf.dir, 1, Len(pf.dir) - 1))
VariantBackslash(i) ==
    /\ pf.op = "buildUrl" /\ i \in DOMAIN pf.dir /\ pf.dir[i] = "/"
    /\ UrlCallVariant([pf.dir EXCEPT ![i] = "\\"])

----------------------------------------------------------------------------
(* The specification *)

Init ==
    /\ mode = "none"
    /\ fs = {}
    /\ minLevel = "DEBUG"
    /\ log = <<>>
    /\ up = NoUploader
    /\ upAlive = FALSE
    /\ setterCalled = FALSE
    /\ upc = "none"
    /\ call = NoCall
    /\ curl = NoHandle
    /\ obs = NoObs
    /\ calls = 0
    /\ rpc = "main"
    /\ cfg = NoCfg
    /\ db = NoDb
    /\ bk = NoBackup
    /\ remover = NoRemover
    /\ exc = NoExc
    /\ now = 0
    /\ result = "none"
    /\ exitCode = -1
    /\ argv = NoCmd
    /\ runs = [t \in Threads |-> NoRun]
    /\ lg = NoLogger
    /\ pf = NoCallYet

Next ==
    \/ \E cmd \in CommandLines : Main(cmd)
    \/ \E dirsOk, openOk \in BOOLEAN : RunOpenDb(dirsOk, openOk)
    \/ \E ok \in BOOLEAN : RunCreateTable(ok)
    \/ \E outcome \in InsertOutcomes : RunInsertRows(outcome)
    \/ \E ok \in BOOLEAN : RunRowCount(ok)
    \/ \E openOk, created, initOk \in BOOLEAN, batches \in 1..MaxBatches :
          BackupOpen(openOk, created, initOk, batches)
    \/ \E rc \in StepStatuses, written \in BOOLEAN : BackupStep(rc, written)
    \/ \E rcFinish \in {"SQLITE_OK", "SQLITE_IOERR"} : BackupFinish(rcFinish)
    \/ RunMakeUploader
    \/ RunUploadFile
    \/ RunReturn
    \/ RunUnwind
    \/ RunCatch
    \/ MainExit
    \/ ClientConstruct
    \/ \E count \in (-1)..MaxRetriesArg : ClientSetRetries(count)
    \/ \E seconds \in {DefaultTimeout, OtherTimeout} : ClientSetTimeout(seconds)
    \/ \E v \in BOOLEAN : ClientEnableVerbose(v)
    \/ \E v \in BOOLEAN : ClientSetSslVerify(v)
    \/ \E localFile \in {TestFile, NonExistentFile} : ClientUpload(localFile)
    \/ UploadAttemptBegin
    \/ UploadPerform
    \/ UploadExhausted

Spec == Init /\ [][Next]_vars

\* concurrent run() calls
ConcNext ==
    \/ \E t \in Threads, prefix \in Prefixes : ThreadDumpFile(t, prefix)
    \/ \E t \in Threads, ok \in BOOLEAN : ThreadBackup(t, ok)
    \/ \E t \in Threads, ok \in BOOLEAN : ThreadUpload(t, ok)
    \/ \E t \in Threads : ThreadCleanup(t)
    \/ Tick

ConcSpec == Init /\ [][ConcNext]_vars

\* concurrent users of the Logger
LoggerNext ==
    \/ \E openOk \in BOOLEAN : LoggerCtor(openOk)
    \/ \E t \in Threads, lvl \in ThreadLevels : LoggerSetLevel(t, lvl)
    \/ \E t \in Threads, size \in {0, MaxMessages} : LoggerSetMaxFileSize(t, size)
    \/ \E t \in Threads, lvl \in ThreadLevels : LogCall(t, lvl)
    \/ \E t \in Threads : LogLock(t)
    \/ \E t \in Threads : LogConsole(t)
    \/ \E t \in Threads, openOk \in BOOLEAN : LogFile(t, openOk)
    \/ \E t \in Threads : LogUnlock(t)

LoggerSpec == Init /\ [][LoggerNext]_vars

\* one thread logging while the clock advances; the rotation limit is set
\* to a number of messages
RotationThread == "t1"

RotationNext ==
    \/ \E openOk \in BOOLEAN : LoggerCtor(openOk)
    \/ \E size \in 0..MaxMessages : LoggerSetMaxFileSize(RotationThread, size)
    \/ \E lvl \in ThreadLevels : LogCall(RotationThread, lvl)
    \/ LogLock(RotationThread)
    \/ LogConsole(RotationThread)
    \/ \E openOk \in BOOLEAN : LogFile(RotationThread, openOk)
    \/ LogUnlock(RotationThread)
    \/ Tick

RotationSpec == Init /\ [][RotationNext]_vars

\* a client of buildUrl
UrlNext ==
    \/ \E dir \in Dirs, port \in UrlPorts : UrlCall(dir, port)
    \/ \E c \in Separators : VariantAddLeading(c)
    \/ \E c \in Separators : VariantAddTrailing(c)
    \/ VariantRemoveLeading
    \/ VariantRemoveTrailing
    \/ \E i \in 1..MaxVariantLen : VariantBackslash(i)

UrlSpec == Init /\ [][UrlNext]_vars

----------------------------------------------------------------------------
(* Properties *)

Last(q) == q[Len(q)]

\* the artifact of the run
Artifact == DumpPath(cfg.sqlitePrefix, now)

\* an uploadFile call has ended
CallFinished == upc \in {"returned", "threw"}

\* every attempt of the call so far reached curl_easy_perform and failed there
AllAttemptsFailed ==
    /\ obs.attempts > 0
    /\ obs.performs = obs.attempts
    /\ \A i \in 1..Len(obs.results) : obs.results[i] \in CurlFailures

\* the numbers of the attempt lines in the log, in order
AttemptLineNumbers ==
    LET q == SelectSeq(log, LAMBDA e : e.text = "FTP upload attempt")
    IN [i \in 1..Len(q) |-> q[i].n]

\* the exception messages of the two faults of an attempt's setup
SetupFaults == {"Failed to open local file", "Failed to initialize curl"}

C2_RunConvertsFailures ==
    /\ rpc = "exited" /\ exitCode \in {EXIT_OK, EXIT_UPLOAD_FAILED} => result # "none"
    /\ result # "none" =>
          /\ result \in {"true", "false"}
          /\ rpc \in {"returned", "exited"}
          /\ result = "true" <=> (bk.done /\ obs.outcome = "returned")
          /\ result = "false" <=> exc # NoExc
          /\ result = "false" =>
                /\ log # <<>>
                /\ Last(log) = Line("ERROR", "Exception during backup/upload", 0, exc.what)

\* run() returned false because the snapshot engine failed, at minimum level ERROR
C2_Witness ==
    /\ result = "false"
    /\ exc.what = "sqlite3_backup failed"
    /\ minLevel = "ERROR"

(* C3: when every attempt of an uploadFile call on an existing file fails  *)
(* in the transfer primitive, the call makes exactly maxRetries attempts,  *)
(* numbered 1..maxRetries, logs the error line "FTP upload failed after N  *)
(* attempts" and throws "FTP upload failed" with the error detail of the   *)
(* last attempt.                                                           *)
C3_ExactlyRAttempts ==
    /\ AllAttemptsFailed => obs.attempts <= up.maxRetries
    /\ CallFinished /\ AllAttemptsFailed =>
          /\ obs.attempts = up.maxRetries
          /\ obs.performs = up.maxRetries
          /\ upc = "threw"
          /\ exc = Exc("FTP upload failed", StrError(Last(obs.results)))
          /\ \E i \in 1..Len(log) :
                log[i] = Line("ERROR", "FTP upload failed after attempts", up.maxRetries,
                              StrError(Last(obs.results)))
          /\ LevelOrd(minLevel) <= LevelOrd("INFO") =>
                AttemptLineNumbers = [i \in 1..up.maxRetries |-> i]

\* three attempts failed, the last with another error than the one before
C3_Witness ==
    /\ CallFinished
    /\ AllAttemptsFailed
    /\ up.maxRetries = 3
    /\ obs.results = <<"CURLE_LOGIN_DENIED", "CURLE_LOGIN_DENIED", "CURLE_COULDNT_CONNECT">>
    /\ exc.detail = "Couldn't connect to server"

(* C4: the k-th backoff sleep follows the failed attempt k, only when      *)
(* k < maxRetries, and lasts 500 ms * 2^min(k-1, 6), at most 32000 ms; no   *)
(* sleep follows the last failed attempt or a successful one; when all     *)
(* maxRetries attempts fail the sleeps sum to the sum over                 *)
(* k = 1..maxRetries-1 of 500 ms * 2^min(k-1, 6).                           *)
C4_BackoffSleeps ==
    /\ Len(obs.sleeps) =
          Cardinality({k \in 1..Len(obs.results) :
                          obs.results[k] \in CurlFailures /\ k < up.maxRetries})
    /\ \A k \in 1..Len(obs.sleeps) :
          /\ obs.results[k] \in CurlFailures
          /\ k < up.maxRetries
          /\ obs.sleeps[k] = 500 * 2^(IF k - 1 < 6 THEN k - 1 ELSE 6)
          /\ obs.sleeps[k] <= 32000
    /\ CallFinished /\ AllAttemptsFailed =>
          /\ Len(obs.sleeps) = up.maxRetries - 1
          /\ SumSeq(obs.sleeps) =
                SumSeq([k \in 1..(up.maxRetries - 1) |->
                           500 * 2^(IF k - 1 < 6 THEN k - 1 ELSE 6)])

\* nine attempts failed: the eighth sleep is capped at 32000 ms
C4_Witness ==
    /\ CallFinished
    /\ AllAttemptsFailed
    /\ up.maxRetries >= 9
    /\ Len(obs.sleeps) >= 8
    /\ obs.sleeps[7] = 32000
    /\ obs.sleeps[8] = 32000

(* C5: when attempt k is the first to succeed, uploadFile returns at once: *)
(* k attempts and k-1 backoff sleeps have been made, nothing is attempted  *)
(* or slept after the success, and run() returns true; for k = 2 there is  *)
(* exactly one sleep, of 500 ms.                                           *)
C5_ReturnsOnFirstSuccess ==
    \A k \in 1..Len(obs.results) :
        obs.results[k] = "CURLE_OK" =>
            /\ k = Len(obs.results)
            /\ k <= up.maxRetries
            /\ upc = "returned"
            /\ obs.outcome = "returned"
            /\ obs.attempts = k
            /\ obs.performs = k
            /\ Len(obs.sleeps) = k - 1
            /\ \A j \in 1..(k - 1) : obs.results[j] \in CurlFailures
            /\ k = 2 => obs.sleeps = <<500>>
            /\ up.lastError = ""
            /\ mode = "main" /\ result # "none" => result = "true"

\* attempt 1 failed, attempt 2 succeeded and run() returned true
C5_Witness ==
    /\ mode = "main"
    /\ result = "true"
    /\ up.maxRetries = 3
    /\ obs.results = <<"CURLE_COULDNT_CONNECT", "CURLE_OK">>
    /\ obs.sleeps = <<500>>

(* C6: uploadFile called with a local path that does not exist throws      *)
(* "Local file does not exist" without beginning an attempt: no handle is   *)
(* created, no transfer is performed, no attempt line is logged and no      *)
(* backoff sleep is taken, whatever maxRetries is.                          *)
C6_MissingFileNoAttempt ==
    /\ NonExistentFile \notin fs
    /\ upc # "none" /\ call.localFile = NonExistentFile =>
          /\ upc = "threw"
          /\ exc = Exc("Local file does not exist", "")
          /\ obs = [NoObs EXCEPT !.outcome = "threw"]
          /\ curl = NoHandle
          /\ AttemptLineNumbers = <<>>
          /\ Last(log) = Line("ERROR", "Local file does not exist", 0, "")

\* the call on the missing file, with five retries configured
C6_Witness ==
    /\ upc = "threw"
    /\ call.localFile = NonExistentFile
    /\ up.maxRetries = 5

(* C7: when the local file cannot be opened or the transfer handle cannot  *)
(* be created in an attempt, uploadFile throws at once: that attempt is    *)
(* the last, it performs no transfer and no backoff sleep follows it,      *)
(* however many retries remain.                                            *)
C7_SetupFaultThrowsAtOnce ==
    exc.what \in SetupFaults =>
        /\ upc = "threw"
        /\ obs.outcome = "threw"
        /\ obs.attempts = call.attempt
        /\ obs.performs = obs.attempts - 1
        /\ obs.handles = obs.attempts - 1
        /\ Len(obs.sleeps) = obs.attempts - 1
        /\ curl = NoHandle

\* the handle could not be created in attempt 2 of 5
C7_Witness ==
    /\ exc.what = "Failed to initialize curl"
    /\ upc = "threw"
    /\ obs.attempts = 2
    /\ up.maxRetries = 5

(* C8: an FtpUploader on which no setter has been called has timeout 30 s, *)
(* maxRetries 3, TLS verification on and verbose off, and makes exactly 3  *)
(* attempts when every attempt fails.                                      *)
C8_DocumentedDefaults ==
    upAlive /\ ~setterCalled =>
        /\ up.timeoutSeconds = 30
        /\ up.maxRetries = DocumentedMaxRetries
        /\ up.sslVerify
        /\ ~up.verbose
        /\ CallFinished /\ AllAttemptsFailed => obs.performs = DocumentedMaxRetries

(* C9: maxRetries of an uploader is at least 1 after any sequence of       *)
(* setRetries calls, so that an uploadFile call on an existing file begins *)
(* at least one attempt; main accepts --retries 0, and the upload of that  *)
(* run makes exactly one attempt.                                          *)
C9_AtLeastOneAttempt ==
    /\ upAlive => up.maxRetries >= 1
    /\ CallFinished /\ call.localFile # NonExistentFile => obs.attempts >= 1
    /\ argv = Cmd(<<Tok("--retries"), Tok("0")>>) =>
          /\ exitCode # EXIT_INVALID_ARGS
          /\ rpc # "main" => cfg.retries = 0
          /\ upAlive => up.maxRetries = 1
          /\ CallFinished => obs.attempts = 1

\* the run started with --retries 0 has made its single attempt, which failed
C9_Witness ==
    /\ argv = Cmd(<<Tok("--retries"), Tok("0")>>)
    /\ CallFinished
    /\ obs.performs = 1
    /\ exc.what = "FTP upload failed"

\* the options of a handle other than peer and host-name verification
EncryptionAndTransferOptions(h) ==
    [f \in (DOMAIN h) \ {"ssl_verifypeer", "ssl_verifyhost"} |-> h[f]]

(* C10: every attempt requires encryption on the control and the data      *)
(* channel (CURLUSESSL_ALL) whatever sslVerify is: the handle of a client  *)
(* that differs only in sslVerify gets the same options but for peer and   *)
(* host-name verification, which are both on when sslVerify is set and     *)
(* both off when it is not.                                                *)
C10_EncryptionAlwaysRequired ==
    /\ upc = "perform" => curl.live
    /\ curl.live =>
          /\ curl.use_ssl = "CURLUSESSL_ALL"
          /\ \/ up.sslVerify /\ curl.ssl_verifypeer = 1 /\ curl.ssl_verifyhost = 2
             \/ ~up.sslVerify /\ curl.ssl_verifypeer = 0 /\ curl.ssl_verifyhost = 0
          /\ LET twin == SetOpts(SetSslVerify(up, ~up.sslVerify), call.url)
             IN /\ EncryptionAndTransferOptions(twin) = EncryptionAndTransferOptions(curl)
                /\ twin.use_ssl = "CURLUSESSL_ALL"
                /\ twin.ssl_verifypeer # curl.ssl_verifypeer
                /\ twin.ssl_verifyhost # curl.ssl_verifyhost

\* an attempt of a client whose verification has been switched off
C10_Witness ==
    /\ mode = "client"
    /\ curl.live
    /\ ~up.sslVerify
    /\ curl.use_ssl = "CURLUSESSL_ALL"

\* the options of the command line hold --no-ssl-verify
HasNoSslVerify(cmd) ==
    \E i \in 7..Len(cmd.args) : cmd.args[i].text = "--no-ssl-verify"

(* C11: a run whose command line does not hold --no-ssl-verify configures  *)
(* its uploader with peer and host-name verification on; verification is   *)
(* off only when --no-ssl-verify is given.                                 *)
C11_VerifyOnUnlessFlag ==
    mode = "main" /\ setterCalled =>
        /\ up.sslVerify <=> ~HasNoSslVerify(argv)
        /\ curl.live /\ ~HasNoSslVerify(argv) =>
              curl.ssl_verifypeer = 1 /\ curl.ssl_verifyhost = 2

----------------------------------------------------------------------------
(* One run of the program started by main, scheduled fairly: a running     *)
(* process takes its next step.                                            *)

FairCommandLines == {Cmd(<<>>), Cmd(<<Tok("--rows"), Tok("2")>>)}

FairNext ==
    \/ \E cmd \in FairCommandLines : Main(cmd)
    \/ \E dirsOk, openOk \in BOOLEAN : RunOpenDb(dirsOk, openOk)
    \/ \E ok \in BOOLEAN : RunCreateTable(ok)
    \/ \E outcome \in InsertOutcomes : RunInsertRows(outcome)
    \/ \E ok \in BOOLEAN : RunRowCount(ok)
    \/ \E openOk, created, initOk \in BOOLEAN, batches \in 1..MaxBatches :
          BackupOpen(openOk, created, initOk, batches)
    \/ \E rc \in StepStatuses, written \in BOOLEAN : BackupStep(rc, written)
    \/ \E rcFinish \in {"SQLITE_OK", "SQLITE_IOERR"} : BackupFinish(rcFinish)
    \/ RunMakeUploader
    \/ RunUploadFile
    \/ RunReturn
    \/ RunUnwind
    \/ RunCatch
    \/ MainExit
    \/ UploadAttemptBegin
    \/ UploadPerform
    \/ UploadExhausted

FairSpec == Init /\ [][FairNext]_vars /\ WF_vars(FairNext)

----------------------------------------------------------------------------
(* C12: backupToFile succeeds only when the last sqlite3_backup_step       *)
(* returned SQLITE_DONE and sqlite3_backup_finish returned SQLITE_OK, and  *)
(* then every batch has been copied; a fatal step status ends the loop and *)
(* the call throws, and the upload stage is entered only after a success.  *)
C12_SuccessOnlyOnDone ==
    /\ bk.done => /\ bk.rc = "SQLITE_DONE"
                  /\ bk.rcFinish = "SQLITE_OK"
                  /\ bk.copied = bk.total
    /\ bk.rc \in FatalStatuses => rpc # "backupStep" /\ ~bk.done
    /\ bk.rc \in FatalStatuses /\ bk.rcFinish # "none" =>
          exc = Exc("sqlite3_backup failed", "") /\ result # "true"
    /\ rpc \in {"uploader", "uploadFile"} => bk.done
    /\ result = "true" => bk.done

\* a fatal status after one of two batches, the finishing call succeeded, and
\* run() returned false
C12_Witness ==
    /\ bk.rc \in FatalStatuses
    /\ bk.copied = 1 /\ bk.total = 2
    /\ bk.rcFinish = "SQLITE_OK"
    /\ result = "false"

\* the last step of the copy loop reported BUSY or LOCKED
BusyNow == rpc = "backupStep" /\ bk.rc \in BusyStatuses

(* C13: a step that reports BUSY or LOCKED sleeps 50 ms and stays in the   *)
(* copy loop without copying, throwing or entering the upload stage,       *)
(* however often it happens; a run in which BUSY/LOCKED is reported only   *)
(* finitely often finishes, and a run in which it is reported forever      *)
(* never constructs the uploader and never returns.                        *)
C13_BusyRetriedWithoutBound ==
    /\ [][rpc = "backupStep" /\ bk'.rc \in BusyStatuses =>
             /\ rpc' = "backupStep"
             /\ bk'.slept = BusySleepMs
             /\ bk'.copied <= bk.copied
             /\ exc' = exc /\ result' = result /\ ~upAlive']_vars
    /\ []<>BusyNow \/ [](rpc = "backupStep" => <>(result # "none"))
    /\ <>[]BusyNow => [](~upAlive /\ result = "none")

\* BUSY or LOCKED was reported after the first of two batches had been copied
C13_Witness ==
    /\ BusyNow
    /\ bk.copied = 1 /\ bk.total = 2
    /\ bk.writes = 0

(* C14: when backupToFile succeeds the destination holds the rows the      *)
(* source held at an instant of the call, whatever the number of batches   *)
(* and of BUSY/LOCKED retries: the rows of the source when the copy last   *)
(* (re)started, which are the rows the source holds at the end; a source   *)
(* of K rows that nobody else writes to yields a destination of K rows.    *)
C14_DestinationIsFullCopy ==
    bk.done =>
        /\ bk.destRows \in bk.seen
        /\ bk.destRows = bk.snap
        /\ bk.destRows = db.rows
        /\ bk.writes = 0 => bk.seen = {bk.destRows}

\* two batches, a write of another connection in between, 100 + 1 rows copied
C14_Witness ==
    /\ bk.done
    /\ bk.total = 2
    /\ bk.writes = 1
    /\ bk.destRows = DefaultRows + 1

----------------------------------------------------------------------------
\* the positions of main and run() in program order
RunPcs == <<"main", "run", "createTable", "insertRandomRows", "getRowCount",
            "backupToFile", "backupStep", "backupFinish", "uploader",
            "uploadFile", "throwing", "catch", "returned", "exited">>
PcOrd(pc) == CHOOSE i \in DOMAIN RunPcs : RunPcs[i] = pc

\* the stage of the run at position pc; "Failing" is an exception in flight
Stage(pc) ==
    CASE pc \in {"backupToFile", "backupStep", "backupFinish"} -> "Snapshotting"
      [] pc \in {"uploader", "uploadFile"} -> "Uploading"
      [] pc = "throwing" -> "Failing"
      [] pc \in {"catch", "returned", "exited"} -> "Cleaned"
      [] OTHER -> "Idle"
StageOrd(st) ==
    CASE st = "Idle" -> 0
      [] st = "Snapshotting" -> 1
      [] st = "Uploading" -> 2
      [] st = "Failing" -> 3
      [] OTHER -> 4

(* C15: a run moves through Idle, Snapshotting, Uploading, Cleaned in this *)
(* order and never backwards; backupToFile is entered once, from           *)
(* getRowCount; the uploader exists and attempts are made only after       *)
(* backupToFile succeeded; a run whose snapshot failed ends with false     *)
(* and without an upload attempt.                                          *)
C15_StagesInOrder ==
    [][/\ PcOrd(rpc') >= PcOrd(rpc)
       /\ StageOrd(Stage(rpc')) >= StageOrd(Stage(rpc))
       /\ rpc' = "backupToFile" /\ rpc # "backupToFile" => rpc = "getRowCount"
       /\ rpc = "backupToFile" /\ rpc' # "backupToFile" =>
             rpc' \in {"backupStep", "throwing"}
       /\ Stage(rpc') = "Uploading" => bk'.done
       /\ mode' = "main" /\ (upAlive' \/ obs'.attempts > 0) => bk'.done
       /\ Stage(rpc) = "Snapshotting" /\ rpc' = "throwing" =>
             ~bk'.done /\ obs'.attempts = 0
       /\ Stage(rpc') = "Cleaned" /\ ~bk'.done /\ mode' = "main" =>
             /\ obs'.attempts = 0 /\ upc' = "none"
             /\ result' # "true"]_vars

\* the snapshot failed on a fatal step status, the run ended with false and
\* main exited, with no upload attempt made
C15_Witness ==
    /\ rpc = "exited"
    /\ bk.total > 0 /\ ~bk.done
    /\ result = "false"
    /\ obs.attempts = 0

\* the handler of run() has written its error entry
ErrorLogged ==
    \E i \in DOMAIN log : /\ log[i].lvl = "ERROR"
                          /\ log[i].text = "Exception during backup/upload"

\* the locals of run() are destroyed and the artifact is not on disk
CleanupRan == ~remover.active /\ remover.path \notin fs /\ ~db.open /\ ~upAlive

(* C16 as stated: on a failure of the snapshot or the upload stage the     *)
(* error entry of run() is written first, then the artifact cleanup runs,  *)
(* then run() returns false.                                               *)
C16_ErrorThenCleanupThenReturn ==
    mode = "main" =>
        /\ remover.removes = 1 /\ result # "true" => ErrorLogged
        /\ result = "false" => ErrorLogged /\ CleanupRan

(* C16 as the code behaves: on a failure of the snapshot or the upload     *)
(* stage the stack is unwound first, which runs the artifact cleanup; then *)
(* the handler writes the error entry of run(); then run() returns false.  *)
C16_CleanupThenErrorThenReturn ==
    mode = "main" =>
        /\ rpc = "throwing" \/ (rpc = "uploadFile" /\ upc = "threw") =>
              ~ErrorLogged /\ result = "none"
        /\ rpc = "catch" => CleanupRan /\ ~ErrorLogged /\ result = "none"
        /\ ErrorLogged => CleanupRan /\ result = "false"
        /\ result = "false" => ErrorLogged /\ CleanupRan

\* every upload attempt failed and the artifact has been removed; the handler
\* has not logged yet
C16_Witness ==
    /\ rpc = "catch"
    /\ obs.attempts > 0
    /\ remover.removes = 1
    /\ ~ErrorLogged

\* the artifacts on disk
Artifacts(files) == {f \in files : f.kind = "_backup_"}

C18_NoOrphanedFiles ==
    mode = "main" /\ result = "false" =>
        fs \cap {db.path, remover.path} = {}

\* the thread is between `TempFileRemover remover(dumpFile)` and the end of
\* its destructor
Active(t) == runs[t].pc \in {"backupToFile", "uploadFile", "unwind"}

(* C19: concurrent runs, whatever their prefixes, have different artifact  *)
(* paths while both are between the naming of the artifact and its         *)
(* removal, and the artifact of a run that is about to upload is on disk:  *)
(* no other run's cleanup has removed it.                                  *)
C19_IndependentArtifacts ==
    /\ \A t, u \in Threads :
          t # u /\ Active(t) /\ Active(u) => runs[t].dumpFile # runs[u].dumpFile
    /\ \A t \in Threads :
          runs[t].pc = "uploadFile" => runs[t].dumpFile \in fs
    /\ \A t \in Threads : runs[t].upload # "missing"

\* the thread holds the mutex and is writing its message
Writing(t) == lg.pc[t] \in {"color", "message", "reset", "file", "unlock"}

\* the messages std::cout has received whole, in order
ConsoleMessages ==
    [n \in 1..(Len(lg.console) \div 3) |->
        [t |-> lg.console[3 * n].t, k |-> lg.console[3 * n].k]]

\* a is b without some of its elements
RECURSIVE IsSubSeq(_, _)
IsSubSeq(a, b) ==
    IF a = <<>> THEN TRUE
    ELSE IF b = <<>> THEN FALSE
    ELSE IF Head(a) = Head(b) THEN IsSubSeq(Tail(a), Tail(b))
    ELSE IsSubSeq(a, Tail(b))

(* C20: at most one thread at a time is writing a message, and it holds    *)
(* the mutex; std::cout receives the three parts of a message one after    *)
(* the other with no part of another message in between; the messages      *)
(* written to the log file are in the order std::cout received them, and   *)
(* while the file has been open all along they are the same messages, the  *)
(* one whose file write is pending excepted.                               *)
C20_WritesSerialised ==
    /\ \A t, u \in Threads : Writing(t) /\ Writing(u) => t = u
    /\ \A t \in Threads : Writing(t) => lg.mtx = t
    /\ \A i \in DOMAIN lg.console :
          LET first == i - ((i - 1) % 3)
          IN  /\ lg.console[i].part = Parts[((i - 1) % 3) + 1]
              /\ lg.console[i].t = lg.console[first].t
              /\ lg.console[i].k = lg.console[first].k
    /\ IsSubSeq(lg.fileLog, ConsoleMessages)
    /\ lg.fileOpen =>
          \/ lg.fileLog = ConsoleMessages
          \/ /\ \E t \in Threads : lg.pc[t] = "file"
             /\ lg.fileLog = SubSeq(ConsoleMessages, 1, Len(ConsoleMessages) - 1)

\* a thread waits for the mutex while the other is in the middle of its
\* console output, after a first message went to both targets
C20_Witness ==
    /\ \E t, u \in Threads : lg.pc[t] = "lock" /\ lg.pc[u] = "message"
    /\ Len(lg.fileLog) >= 1
    /\ Len(lg.console) >= 4

(* C21: buildUrl gives the URL of a directory for every variant of it made *)
(* by replacing forward slashes with backslashes and by adding or removing *)
(* leading and trailing slashes and backslashes; buildUrl("a\b\", f),      *)
(* buildUrl("/a/b/", f) and buildUrl("a/b", f) are equal.                  *)
C21_VariantsGiveSameUrl ==
    /\ pf.op = "buildUrl" => pf.url = pf.baseUrl
    /\ UrlOf(21, <<"a", "\\", "b", "\\">>) = UrlOf(21, <<"/", "a", "/", "b", "/">>)
    /\ UrlOf(21, <<"/", "a", "/", "b", "/">>) = UrlOf(21, <<"a", "/", "b">>)

\* buildUrl("a/b", f) was followed by buildUrl("a\b\", f)
C21_Witness ==
    /\ pf.op = "buildUrl"
    /\ pf.base = <<"a", "/", "b">>
    /\ pf.dir = <<"a", "\\", "b", "\\">>

\* the pieces of the URL before the directory and after it
UrlHead(port) ==
    <<"ftp://", "127.0.0.1">> \o (IF port > 0 THEN <<":", ToString(port)>> ELSE <<>>)
UrlTail == <<"/", "test_upload", "", "0", ".txt">>
UrlDirPart(url, port) ==
    SubSeq(url, Len(UrlHead(port)) + 1, Len(url) - Len(UrlTail))
NotSeparator(c) == c \notin Separators

(* C22: the URL is scheme://host, then :port exactly when port > 0, then   *)
(* when the cleaned directory is not empty a slash and the cleaned         *)
(* directory, which holds the directory's other characters in order, no    *)
(* backslash and no slash at either end, then one slash and the file name; *)
(* a directory that is empty or made of slashes and backslashes only gives *)
(* scheme://host[:port]/filename.                                          *)
C22_UrlShape ==
    pf.op = "buildUrl" =>
        LET url == pf.url
            head == UrlHead(pf.port)
            part == UrlDirPart(url, pf.port)
        IN  /\ Len(url) >= Len(head) + Len(UrlTail)
            /\ SubSeq(url, 1, Len(head)) = head
            /\ SubSeq(url, Len(url) - Len(UrlTail) + 1, Len(url)) = UrlTail
            /\ pf.port > 0 <=> \E i \in DOMAIN url : url[i] = ":"
            /\ \A i \in DOMAIN url : url[i] # "\\"
            /\ part # <<>> => /\ Len(part) >= 2
                              /\ part[1] = "/"
                              /\ part[2] # "/"
                              /\ part[Len(part)] # "/"
            /\ SelectSeq(part, NotSeparator) = SelectSeq(pf.dir, NotSeparator)
            /\ Len(part) <= Len(pf.dir) + 1
            /\ (\A i \in DOMAIN pf.dir : pf.dir[i] \in Separators) => url = head \o UrlTail

\* a directory of a slash and a backslash on an uploader without a port
C22_Witness ==
    /\ pf.op = "buildUrl"
    /\ pf.dir = <<"/", "\\">>
    /\ pf.port = 0

\* the lines of the log with this text, and those of this level
LinesWithText(text) == SelectSeq(log, LAMBDA e : e.text = text)
LinesOfLevel(lvl) == SelectSeq(log, LAMBDA e : e.lvl = lvl)

\* run() has returned false after every attempt of its upload failed in the
\* transfer primitive, at minimum level INFO
AllFailedRun ==
    /\ mode = "main" /\ result = "false"
    /\ AllAttemptsFailed
    /\ minLevel = "INFO"

ConsoleParts(t) == SelectSeq(lg.console, LAMBDA e : e.t = t /\ e.k = lg.cur[t].k)
FileCopies(t) == SelectSeq(lg.fileLog, LAMBDA m : m.t = t /\ m.k = lg.cur[t].k)

\* the last log() call of thread t was made below the minimum level it met
Below(t) == LevelOrd(lg.cur[t].lvl) < LevelOrd(lg.cur[t].min)

(* C24: a log() call made below the level of the last setLevel returns at  *)
(* once and nothing of its message ever reaches std::cout or a log file;   *)
(* a call at or above it has, once it has returned, written its message    *)
(* exactly once to std::cout, as its three parts in order, and exactly     *)
(* once to the log file when the file is open, where, without rotation,    *)
(* it is the last line until the next message at or above the level.       *)
C24_LevelFiltering ==
    /\ [](\A t \in Threads :
            /\ Below(t) => /\ lg.pc[t] = "idle"
                           /\ ConsoleParts(t) = <<>> /\ FileCopies(t) = <<>>
            /\ ~Below(t) /\ lg.pc[t] = "idle" /\ lg.cur[t].k > 0 =>
                  /\ [j \in 1..Len(ConsoleParts(t)) |-> ConsoleParts(t)[j].part] = Parts
                  /\ Len(FileCopies(t)) <= 1
                  /\ lg.fileOpen => Len(FileCopies(t)) = 1)
    /\ [][/\ lg'.console # lg.console =>
                \E t \in Threads :
                    /\ ~Below(t)
                    /\ lg'.console = Append(lg.console, [t |-> t, k |-> lg.cur[t].k,
                                                         part |-> lg.pc[t]])
          /\ lg'.fileLog # lg.fileLog =>
                \E t \in Threads :
                    /\ ~Below(t)
                    /\ lg'.fileLog = Append(lg.fileLog, [t |-> t, k |-> lg.cur[t].k])
                    /\ lg.maxFileSize = 0 =>
                          lg'.file # <<>> /\ lg'.file[Len(lg'.file)] = [t |-> t, k |-> lg.cur[t].k]
          /\ lg'.fileLog = lg.fileLog /\ lg'.maxFileSize = 0 /\ lg.maxFileSize = 0 =>
                lg'.file = lg.file]_vars

\* LoggerTest.LevelFiltering: at level ERROR a thread has logged an ERROR
\* message, the last line of the file, and then a WARNING message, dropped
C24_Witness ==
    /\ lg.minLevel = "ERROR"
    /\ lg.fileOpen /\ lg.maxFileSize = 0
    /\ \E t \in Threads :
          /\ lg.pc[t] = "idle"
          /\ lg.cur[t] = [k |-> 2, lvl |-> "WARNING", min |-> "ERROR"]
          /\ lg.file = <<[t |-> t, k |-> 1]>>

\* the values --log-level documents
LogLevelNames == {"debug", "info", "warn", "error"}

\* the options hold --log-level with a value that is not a level name
InvalidLogLevel(cmd) ==
    \E i \in 7..Len(cmd.args) :
        /\ cmd.args[i].text = "--log-level"
        /\ \/ cmd.args[i].eq /\ cmd.args[i].rhs \notin LogLevelNames
           \/ /\ ~cmd.args[i].eq /\ i < Len(cmd.args)
              /\ cmd.args[i + 1].text \notin LogLevelNames

\* the password argument is '-' and FTP_PASS is not set
MissingPassword(cmd) ==
    Len(cmd.args) >= 6 /\ cmd.args[5] = Tok("-") /\ ~cmd.envPass

(* C25: main exits with 0 exactly when run() returned true, with 2 exactly *)
(* when run() returned false, with 3 when --log-level has an invalid value *)
(* or the password argument is '-' and FTP_PASS is not set, with 1 for     *)
(* other invalid arguments; when it exits with 1 or 3 no database was      *)
(* created and no upload attempted.                                        *)
C25_ExitCodes ==
    mode = "main" /\ rpc = "exited" =>
        /\ exitCode \in {EXIT_OK, EXIT_INVALID_ARGS, EXIT_UPLOAD_FAILED, EXIT_CONFIG_ERROR}
        /\ exitCode = EXIT_OK <=> result = "true"
        /\ exitCode = EXIT_UPLOAD_FAILED <=> result = "false"
        /\ InvalidLogLevel(argv) \/ MissingPassword(argv) => exitCode = EXIT_CONFIG_ERROR
        /\ exitCode \in {EXIT_INVALID_ARGS, EXIT_CONFIG_ERROR} =>
              db = NoDb /\ fs = {} /\ obs.attempts = 0

\* the option lists of the model that hold --no-ssl-verify; each is built
\* from documented options with valid values
NoSslVerifyLists ==
    {<<Tok("--no-ssl-verify")>>,
     <<Tok("--no-ssl-verify"), Tok("--retries"), Tok("2")>>,
     <<Tok("--retries"), Tok("2"), Tok("--no-ssl-verify")>>,
     <<Tok("--no-ssl-verify"), TokEq("--retries", "2")>>}

(* C26: a command line whose options are --no-ssl-verify and --retries 2   *)
(* (as two elements or as --retries=2), in either order or with            *)
(* --no-ssl-verify alone or last, is accepted, and the run is configured   *)
(* without verification and with the retries the list gives.               *)
C26_NoSslVerifyTakesNoValue ==
    mode = "main" /\ (\E o \in NoSslVerifyLists : argv = Cmd(o)) =>
        /\ exitCode # EXIT_INVALID_ARGS
        /\ cfg # NoCfg
        /\ ~cfg.sslVerify
        /\ cfg.retries = IF Len(argv.args) > 7 THEN 2 ELSE DefaultRetries

\* ---------------------------------------------------------------------
\* SqliteHelper used directly by a client (as SqliteHelperTests does):
\* insertRandomRows and getRowCount on a table that already holds rows
\* ---------------------------------------------------------------------

\* rows the table holds when the client starts, the largest count passed,
\* and the number of insertRandomRows calls of one client
MaxTableRows == 2
MaxCount == 2
MaxInsertCalls == 3

\* the people table as one connection sees it: committed rows, rows
\* inserted by the open transaction, and whether a transaction is open
TableOf(m) == [rows |-> m, pending |-> 0, txnOpen |-> FALSE]

\* where a call of insertRandomRows(count) can fail: BEGIN, the prepare,
\* std::stoul of SQLITEHELPER_SEED (first call only), bind or step of row
\* `row`, COMMIT
InsertFaults(count, seeded) ==
    {[at |-> a, row |-> 0] : a \in {"none", "begin", "prepare", "commit"}}
    \cup (IF seeded THEN {} ELSE {[at |-> "seed", row |-> 0]})
    \cup {[at |-> a, row |-> i] : a \in {"bind", "step"}, i \in 0..(count - 1)}

\* sqlite3_exec(db, "ROLLBACK;")
RollbackMutant(d) == [d EXCEPT !.rows = @ + d.pending, !.pending = 0, !.txnOpen = FALSE]

Rollback(d) == [d EXCEPT !.pending = 0, !.txnOpen = FALSE]

\* sqlite3_exec(db, "COMMIT;")
Commit(d) == [d EXCEPT !.rows = @ + d.pending, !.pending = 0, !.txnOpen = FALSE]

\* for (int i = 0; i < count; ++i) { bind; step; reset }
RECURSIVE InsertLoop(_, _, _, _)
InsertLoop(d, i, count, fault) ==
    IF i >= count THEN [d |-> d, failed |-> FALSE]
    ELSE IF fault.at \in {"bind", "step"} /\ fault.row = i THEN [d |-> d, failed |-> TRUE]
    ELSE InsertLoop([d EXCEPT !.pending = @ + 1], i + 1, count, fault)

\* insertRandomRows(count): BEGIN fails inside an open transaction; a
\* failure of the prepare or of the seeding is thrown before the try block
\* and leaves the transaction open; a failure inside the try block is
\* followed by ROLLBACK; `began` tells whether BEGIN succeeded
InsertRandomRows(d, count, fault, seeded) ==
    IF d.txnOpen \/ fault.at = "begin"
    THEN [d |-> d, threw |-> TRUE, seeded |-> seeded, began |-> FALSE]
    ELSE LET b == [d EXCEPT !.txnOpen = TRUE] IN
         IF fault.at \in {"prepare", "seed"}
         THEN [d |-> b, threw |-> TRUE, seeded |-> seeded, began |-> TRUE]
         ELSE LET l == InsertLoop(b, 0, count, fault) IN
              IF l.failed \/ fault.at = "commit"
              THEN [d |-> Rollback(l.d), threw |-> TRUE, seeded |-> TRUE, began |-> TRUE]
              ELSE [d |-> Commit(l.d), threw |-> FALSE, seeded |-> TRUE, began |-> TRUE]

\* the outcomes of the count query: the prepare fails (throws), the step
\* returns SQLITE_ROW, or the step returns another status
CountOutcomes == {"row", "prepare", "norow"}

\* getRowCount(): count stays 0 unless the step returned SQLITE_ROW
GetRowCount(d, q) == IF q = "row" THEN d.rows + d.pending ELSE 0

\* the client opens the helper on a table holding m rows
HelperOpen(m) ==
    /\ pf.op = "none"
    /\ pf' = [op |-> "open", d |-> TableOf(m), seeded |-> FALSE, k |-> 0,
              m |-> m, n |-> 0, fault |-> [at |-> "none", row |-> 0],
              threw |-> FALSE, began |-> FALSE, q |-> "none", ret |-> 0]
    /\ UNCHANGED <<seqVars, fs, now, runs, lg>>

\* dbHelper->insertRandomRows(n)
HelperInsert(n, fault) ==
    /\ pf.op \in {"open", "insert", "count"}
    /\ pf.k < MaxInsertCalls
    /\ fault \in InsertFaults(n, pf.seeded)
    /\ LET r == InsertRandomRows(pf.d, n, fault, pf.seeded) IN
       pf' = [op |-> "insert", d |-> r.d, seeded |-> r.seeded, k |-> pf.k + 1,
              m |-> pf.d.rows, n |-> n, fault |-> fault,
              threw |-> r.threw, began |-> r.began, q |-> "none", ret |-> 0]
    /\ UNCHANGED <<seqVars, fs, now, runs, lg>>

\* dbHelper->getRowCount()
HelperGetRowCount(q) ==
    /\ pf.op = "insert"
    /\ pf' = [pf EXCEPT !.op = "count", !.q = q, !.ret = GetRowCount(pf.d, q)]
    /\ UNCHANGED <<seqVars, fs, now, runs, lg>>

HelperNext ==
    \/ \E m \in 0..MaxTableRows : HelperOpen(m)
    \/ \E n \in 0..MaxCount :
         \E a \in {"none", "begin", "prepare", "seed", "bind", "step", "commit"} :
           \E i \in 0..MaxCount : HelperInsert(n, [at |-> a, row |-> i])
    \/ \E q \in CountOutcomes : HelperGetRowCount(q)

HelperSpec == Init /\ [][HelperNext]_vars

\* the rows the table must hold after the last insertRandomRows call
RowsExpected == IF pf.threw THEN pf.m ELSE pf.m + pf.n

Config(u) == [u EXCEPT !.lastError = ""]

\* a step of an uploadFile call
UploadStep == upc' # upc \/ call' # call \/ obs' # obs

\* the option set a handle is given for the client u and the URL url:
\* URL, credentials, both timeouts, TLS settings, progress callback
UsesConfig(o, u, url) ==
    /\ o.url = url
    /\ o.username = u.user /\ o.password = u.pass
    /\ o.connecttimeout = u.timeoutSeconds
    /\ o.ftp_response_timeout = u.timeoutSeconds
    /\ o.use_ssl = "CURLUSESSL_ALL"
    /\ o.ssl_verifypeer = (IF u.sslVerify THEN 1 ELSE 0)
    /\ o.ssl_verifyhost = (IF u.sslVerify THEN 2 ELSE 0)
    /\ o.noprogress = (IF u.hasProgressCb THEN 0 ELSE 1)

(* C28: a step of uploadFile changes no field of the client other than    *)
(* lastError; the URL is the one built from the client and the arguments  *)
(* at entry and does not change while the call runs; and all handles of   *)
(* one call are given one and the same option set, which holds that URL   *)
(* and the client's credentials, timeout (connection and response), TLS   *)
(* settings and progress callback.                                         *)
C28_EndpointAndConfigFixed ==
    /\ [][UploadStep => Config(up') = Config(up)]_vars
    /\ [][(upc \in {"loop", "perform"}) => (call'.url = call.url)]_vars
    /\ [](upc \in {"loop", "perform"} =>
            call.url = BuildUrl(up, call.remoteDir, FileName(call.localFile)))
    /\ [](/\ Cardinality(obs.opts) <= 1
          /\ \A o \in obs.opts : UsesConfig(o, up, call.url))

\* a call on a client with a timeout of its own has given handles to two
\* attempts
C28_Witness ==
    /\ obs.handles >= 2
    /\ obs.performs >= 2
    /\ Cardinality(obs.opts) = 1
    /\ up.timeoutSeconds = OtherTimeout
    /\ up.lastError # ""

\* the error detail the finished call itself accounts for: none when no
\* transfer was performed or the last one succeeded, else the detail of the
\* last transfer
DetailOfCall ==
    IF obs.results = <<>> \/ Last(obs.results) = "CURLE_OK" THEN ""
    ELSE StrError(Last(obs.results))

\* the call was refused at entry because the local file does not exist
RefusedAtEntry == upc = "threw" /\ obs.attempts = 0 /\ exc.what = "Local file does not exist"

(* C29 as stated: after every finished uploadFile call getLastError        *)
(* reflects that call only: it is empty after a success and after a call   *)
(* that performed no transfer, and it is the detail of the last attempt    *)
(* after a call whose attempts all failed.                                 *)
C29_LastErrorOfLastCall ==
    CallFinished => GetLastError(up) = DetailOfCall

(* C29 amended: after a finished uploadFile call that passed the check of  *)
(* the local file, getLastError is empty when the call succeeded (whatever *)
(* failed before) and is the detail of the call's last transfer when all   *)
(* attempts failed; a call refused because the local file does not exist   *)
(* leaves getLastError as the call before left it.                         *)
C29_LastErrorUnlessRefused ==
    /\ [](CallFinished /\ ~RefusedAtEntry => GetLastError(up) = DetailOfCall)
    /\ [](upc = "returned" => GetLastError(up) = "")
    /\ [](upc = "threw" /\ AllAttemptsFailed =>
            GetLastError(up) = StrError(Last(obs.results)))
    /\ [][RefusedAtEntry' /\ UploadStep => GetLastError(up') = GetLastError(up)]_vars

\* the second call of a client succeeded at its second attempt
C29_Witness ==
    /\ calls = 2
    /\ upc = "returned"
    /\ Len(obs.results) >= 2
    /\ obs.results[1] \in CurlFailures
    /\ GetLastError(up) = ""

\* ---------------------------------------------------------------------
\* A client that installs a progress callback of its own, which may raise
\* ---------------------------------------------------------------------

\* uploader.setProgressCallback(cb)
ClientSetProgressCallback ==
    /\ ClientIdle
    /\ ~up.hasProgressCb
    /\ up' = SetProgressCallback(up)
    /\ setterCalled' = TRUE
    /\ UNCHANGED <<mode, fs, minLevel, log, upAlive, upc, call, curl, obs, calls, rpc,
                   cfg, db, bk, remover, exc, now, runs, lg, pf, result, exitCode, argv>>

\* the transfer of an attempt, in which the callback raises or does not
CallbackPerform ==
    /\ \E net \in NetworkResults, raises \in BOOLEAN : Perform(net, raises)
    /\ UNCHANGED <<mode, fs, minLevel, upAlive, setterCalled, calls, rpc, cfg, db, bk, remover,
                   now, runs, lg, pf, result, exitCode, argv>>

CallbackNext ==
    \/ ClientConstruct
    \/ ClientSetProgressCallback
    \/ \E count \in (-1)..MaxRetriesArg : ClientSetRetries(count)
    \/ ClientUpload(TestFile)
    \/ UploadAttemptBegin
    \/ CallbackPerform
    \/ UploadExhausted

CallbackSpec == Init /\ [][CallbackNext]_vars

\* the step is the transfer of an attempt
PerformStep == upc = "perform" /\ obs'.performs = obs.performs + 1

(* C30: when the progress callback raises during the transfer of an        *)
(* attempt, no exception enters or leaves the transfer: the transfer ends  *)
(* with the aborted-by-callback result, the attempt is handled as any      *)
(* failed attempt (lastError and warning line set, loop continued) and is  *)
(* followed by the backoff sleep of its number exactly when attempts       *)
(* remain; a transfer in which the callback does not raise, or for which   *)
(* no callback is installed, never ends with the aborted result.           *)
C30_CallbackErrorIsFailedAttempt ==
    /\ [][PerformStep /\ Last(obs'.raised) =>
            /\ Last(obs'.results) = "CURLE_ABORTED_BY_CALLBACK"
            /\ exc' = exc
            /\ upc' = "loop"
            /\ up'.lastError = StrError("CURLE_ABORTED_BY_CALLBACK")
            /\ Last(log').lvl = "WARNING" \/ Last(log').text = "Retrying after backoff..."
            /\ obs'.sleeps = IF call.attempt < up.maxRetries
                             THEN Append(obs.sleeps, SleepForBackoff(call.attempt))
                             ELSE obs.sleeps]_vars
    /\ [][PerformStep /\ ~Last(obs'.raised) =>
            Last(obs'.results) \in NetworkResults]_vars
    /\ [](\A k \in 1..Len(obs.results) :
            obs.results[k] = "CURLE_ABORTED_BY_CALLBACK" <=> obs.raised[k])

\* the callback raised in the first attempt of a call, the backoff followed,
\* and the second attempt succeeded
C30_Witness ==
    /\ Len(obs.results) = 2
    /\ obs.raised[1] /\ ~obs.raised[2]
    /\ obs.results[2] = "CURLE_OK"
    /\ obs.sleeps = <<SleepForBackoff(1)>>
    /\ upc = "returned"

\* the step is setMaxFileSize assigning another value to maxFileSize_
WritesMaxFileSize == lg'.maxFileSize # lg.maxFileSize

\* the step is the entry of log(), which reads minLevel_
ReadsMinLevel == \E t \in Threads : lg'.sent[t] = lg.sent[t] + 1

(* C31: every access to the logger's shared state is made under the mutex: *)
(* a thread that is not inside log() assigns maxFileSize_ or reads         *)
(* minLevel_ only in a step that takes the mutex, so never while another   *)
(* thread holds it.                                                        *)
C31_SharedStateUnderMutex ==
    [][/\ WritesMaxFileSize => lg.mtx = "none"
       /\ ReadsMinLevel => lg.mtx = "none"]_vars

\* the messages the log files on disk hold
OnDisk == UNION {{lg.disk[n][i] : i \in 1..Len(lg.disk[n])} : n \in DOMAIN lg.disk}

(* C32: every message that was written to a log file is in a log file on   *)
(* disk, whatever rotations followed and in whatever second they happened. *)
C32_RotationKeepsLines ==
    \A i \in 1..Len(lg.fileLog) : lg.fileLog[i] \in OnDisk

(* C33: after an insertRandomRows call whose BEGIN succeeded, whether the  *)
(* call returned or raised (at the prepare, a bind, a step or the commit), *)
(* no transaction is open on the connection.                               *)
C33_NoTransactionLeftOpen ==
    pf.op \in {"insert", "count"} /\ pf.began => ~pf.d.txnOpen

====
